---- MODULE Spec2Model ----
(***************************************************************************)
(* Model of the BACnet ASN.1 parser (src/src/index.js): the recursive-     *)
(* descent parser `parse`, its cursor/matcher primitives, the ParserError  *)
(* line computation and the normalization entry point `normalize`.         *)
(* Text is a TLA+ string; a character is a string of length one.           *)
(***************************************************************************)
EXTENDS Integers, Sequences, FiniteSets, TLC

\* ------------------------------------------------------------------------
\* Bounds of the explored inputs
\* ------------------------------------------------------------------------
MaxItems == 2

MaxNum == 2

\* ------------------------------------------------------------------------
\* Characters and character classes of the regular expressions
\* ------------------------------------------------------------------------
Upper == {"A","B","C","D","E","F","G","H","I","J","K","L","M",
          "N","O","P","Q","R","S","T","U","V","W","X","Y","Z"}

Lower == {"a","b","c","d","e","f","g","h","i","j","k","l","m",
          "n","o","p","q","r","s","t","u","v","w","x","y","z"}

Digit == {"0","1","2","3","4","5","6","7","8","9"}

Punct == {" ","!","\"","#","$","%","&","'","(",")","*","+",",","-",".","/",
          ":",";","<","=",">","?","@","[","\\","]","^","_","{","|","}","~"}

\* [\t\n\x20-\x7E] (the grave accent, which a string of this notation cannot
\* hold, is the one printable character left out)
ValidChar == Upper \cup Lower \cup Digit \cup Punct \cup {"\t", "\n"}

\* \s restricted to the characters a string of this model can hold
WhiteSpace == {" ", "\t", "\n", "\r", "\f"}

\* the line terminators that `.` does not match
LineTerminator == {"\n", "\r"}

Alnum == Upper \cup Lower \cup Digit

LowerNum == Lower \cup Digit

\* F(v), the value v being worked out once, as an assignment to a local does
Bind(v, F(_)) == CHOOSE r \in {F(x) : x \in {v}} : TRUE

Ch(s, i) == IF i >= 1 /\ i <= Len(s) THEN SubSeq(s, i, i) ELSE ""

\* String.prototype.substring(n)
Drop(s, n) == IF n >= Len(s) THEN "" ELSE SubSeq(s, n + 1, Len(s))

\* String.prototype.slice(0, n)
Take(s, n) == IF n <= 0 THEN "" ELSE IF n >= Len(s) THEN s ELSE SubSeq(s, 1, n)

\* the literal lit stands at position i of s
At(s, i, lit) == /\ i >= 1
                 /\ i + Len(lit) - 1 <= Len(s)
                 /\ SubSeq(s, i, i + Len(lit) - 1) = lit

\* String.prototype.startsWith
StartsWith(s, lit) == At(s, 1, lit)

\* first position at or after i whose character is not in class: a greedy class*
RunEnd(s, i, class) ==
    IF i > Len(s) THEN i
    ELSE CHOOSE j \in i..(Len(s) + 1) :
             /\ \A k \in i..(j - 1) : Ch(s, k) \in class
             /\ j > Len(s) \/ Ch(s, j) \notin class

\* first position of the run of characters of class that ends at i
RunStart(s, i, class) ==
    CHOOSE j \in 1..(i + 1) :
        /\ \A k \in j..i : Ch(s, k) \in class
        /\ j = 1 \/ Ch(s, j - 1) \notin class

RECURSIVE Gather(_, _, _, _)
\* the pieces F(s, lo), ..., F(s, hi) put together: what a replacement that
\* works position by position makes of s
Gather(F(_, _), s, lo, hi) ==
    IF lo > hi THEN ""
    ELSE IF lo = hi THEN F(s, lo)
    ELSE LET mid == (lo + hi) \div 2
         IN  Gather(F, s, lo, mid) \o Gather(F, s, mid + 1, hi)

WsEnd(s, i) == RunEnd(s, i, WhiteSpace)

DigitsEnd(s, i) == RunEnd(s, i, Digit)

DigitVal(c) == CASE c = "0" -> 0 [] c = "1" -> 1 [] c = "2" -> 2 [] c = "3" -> 3
                 [] c = "4" -> 4 [] c = "5" -> 5 [] c = "6" -> 6 [] c = "7" -> 7
                 [] c = "8" -> 8 [] c = "9" -> 9

RECURSIVE ParseIntAcc(_, _)
ParseIntAcc(s, acc) ==
    IF s = "" THEN acc ELSE ParseIntAcc(Tail(s), 10 * acc + DigitVal(Head(s)))

\* parseInt(s, 10) of a string of decimal digits
ParseInt(s) == ParseIntAcc(s, 0)

RECURSIVE Pow10(_)
Pow10(n) == IF n = 0 THEN 1 ELSE 10 * Pow10(n - 1)

\* ------------------------------------------------------------------------
\* Numbers of constraints: a finite decimal n/d, or one of the two infinities
\* ------------------------------------------------------------------------
NegInf == [k |-> "-inf", n |-> 0, d |-> 1]

PosInf == [k |-> "+inf", n |-> 0, d |-> 1]

Num(n) == [k |-> "num", n |-> n, d |-> 1]

\* 4294967295, which the integers of the model checker cannot hold
UInt32Max == [k |-> "4294967295", n |-> 0, d |-> 1]

\* a > b on JavaScript numbers (of a constraint)
NumGT(a, b) ==
    CASE a.k = "-inf" -> FALSE
      [] a.k = "+inf" -> b.k # "+inf"
      [] OTHER -> CASE b.k = "-inf" -> TRUE
                    [] b.k = "+inf" -> FALSE
                    [] OTHER -> a.n * b.d > b.n * a.d

NumEQ(a, b) == ~NumGT(a, b) /\ ~NumGT(b, a)

RECURSIVE Reduce(_, _)
\* the one representation of n/d whose denominator is the least power of ten
Reduce(n, d) ==
    IF d > 1 /\ n % 10 = 0 THEN Reduce(n \div 10, d \div 10)
    ELSE [k |-> "num", n |-> n, d |-> d]

\* parseFloat of a string matching [+-]?\d+(?:\.\d+)?
ParseFloat(s) ==
    LET signed == Ch(s, 1) \in {"+", "-"}
        body   == IF signed THEN Drop(s, 1) ELSE s
        ie     == DigitsEnd(body, 1)
        ip     == SubSeq(body, 1, ie - 1)
        fp     == IF ie <= Len(body) THEN Drop(body, ie) ELSE ""
        mag    == ParseInt(ip \o fp)
    IN  Reduce(IF Ch(s, 1) = "-" THEN 0 - mag ELSE mag, Pow10(Len(fp)))

\* ------------------------------------------------------------------------
\* Regular expressions of the parser. A match is the length of the matched
\* prefix (0: no match; no pattern matches the empty string), the whole
\* match, and the capture groups (has2: group 2 took part in the match).
\* ------------------------------------------------------------------------
NoMatch == [len |-> 0, all |-> "", g1 |-> "", g2 |-> "", has2 |-> FALSE]

Match(s, n, g1) ==
    [len |-> n, all |-> Take(s, n), g1 |-> g1, g2 |-> "", has2 |-> FALSE]

\* pattern given as a string: text.startsWith(pattern)
Literal(s, lit) == IF StartsWith(s, lit) THEN Match(s, Len(lit), "") ELSE NoMatch

RECURSIVE UpperGroups(_, _)
\* (?:-[A-Z][0-9A-Za-z]*)*
UpperGroups(s, j) ==
    IF Ch(s, j) = "-" /\ Ch(s, j + 1) \in Upper
    THEN Bind(RunEnd(s, j + 2, Alnum), LAMBDA e : UpperGroups(s, e))
    ELSE j

\* end of [A-Z][0-9A-Za-z]*(?:-[A-Z][0-9A-Za-z]*)* at position i (i: no match)
UpperIdentEnd(s, i) ==
    IF Ch(s, i) \in Upper
    THEN Bind(RunEnd(s, i + 1, Alnum), LAMBDA e : UpperGroups(s, e))
    ELSE i

RECURSIVE LowerGroups(_, _)
\* (?:-[0-9a-z]+)*
LowerGroups(s, j) ==
    IF Ch(s, j) = "-" /\ Ch(s, j + 1) \in LowerNum
    THEN Bind(RunEnd(s, j + 2, LowerNum), LAMBDA e : LowerGroups(s, e))
    ELSE j

\* a header whose name may start with any letter or digit
HeaderPatternAnyCase(s) ==
    Bind(RunEnd(s, 1, Alnum \cup {"-"}), LAMBDA e :
        LET w == WsEnd(s, e)
        IN  IF e > 1 /\ At(s, w, "::=") THEN Match(s, w + 2, Take(s, e - 1))
            ELSE NoMatch)

\* /^([A-Z][0-9A-Za-z]*(?:-[A-Z][0-9A-Za-z]*)*)\s*::=/
HeaderPattern(s) ==
    Bind(UpperIdentEnd(s, 1), LAMBDA e :
        LET w == WsEnd(s, e)
        IN  IF e > 1 /\ At(s, w, "::=") THEN Match(s, w + 2, Take(s, e - 1))
            ELSE NoMatch)

\* /^\[\s*APPLICATION\s+(\d+)\s*\]/
ApplicationPattern(s) ==
    IF Ch(s, 1) # "[" THEN NoMatch
    ELSE LET w1 == WsEnd(s, 2)
             a  == w1 + 11
         IN  IF ~At(s, w1, "APPLICATION") THEN NoMatch
             ELSE Bind(WsEnd(s, a), LAMBDA w2 :
                      LET d  == DigitsEnd(s, w2)
                          w3 == WsEnd(s, d)
                      IN  IF w2 > a /\ d > w2 /\ Ch(s, w3) = "]"
                          THEN Match(s, w3, SubSeq(s, w2, d - 1))
                          ELSE NoMatch)

\* /^SEQUENCE\s*(?:SIZE\s*\(\s*(\d+)\s*\)\s*)?OF/ (g1 = "": group 1 undefined)
SeriesPattern(s) ==
    IF ~At(s, 1, "SEQUENCE") THEN NoMatch
    ELSE Bind(WsEnd(s, 9), LAMBDA w :
        IF At(s, w, "OF") THEN Match(s, w + 1, "")
        ELSE IF ~At(s, w, "SIZE") THEN NoMatch
        ELSE Bind(WsEnd(s, w + 4), LAMBDA w2 :
            IF Ch(s, w2) # "(" THEN NoMatch
            ELSE Bind(WsEnd(s, w2 + 1), LAMBDA w3 :
                LET d  == DigitsEnd(s, w3)
                    w4 == WsEnd(s, d)
                    w5 == WsEnd(s, w4 + 1)
                IN  IF d > w3 /\ Ch(s, w4) = ")" /\ At(s, w5, "OF")
                    THEN Match(s, w5 + 1, SubSeq(s, w3, d - 1))
                    ELSE NoMatch)))

\* /^BIT\s+STRING/ and /^OCTET\s+STRING/
WordsPattern(s, first) ==
    LET a == Len(first) + 1
        w == WsEnd(s, a)
    IN  IF At(s, 1, first) /\ w > a /\ At(s, w, "STRING")
        THEN Match(s, w + 5, "")
        ELSE NoMatch

\* /^[A-Z][0-9A-Za-z]*(?:-[A-Z][0-9A-Za-z]*)*/
TypeRefPattern(s) ==
    Bind(UpperIdentEnd(s, 1), LAMBDA e :
        IF e > 1 THEN Match(s, e - 1, "") ELSE NoMatch)

\* /^\(?\s*SIZE/
SizePattern(s) ==
    LET w == WsEnd(s, IF Ch(s, 1) = "(" THEN 2 ELSE 1)
    IN  IF At(s, w, "SIZE") THEN Match(s, w + 3, "") ELSE NoMatch

\* end of [+-]?\d+(?:\.\d+)? at position i (i: no match)
NumberEnd(s, i) ==
    LET j == IF Ch(s, i) \in {"+", "-"} THEN i + 1 ELSE i
        d == DigitsEnd(s, j)
        f == DigitsEnd(s, d + 1)
    IN  IF d = j THEN i
        ELSE IF Ch(s, d) = "." /\ f > d + 1 THEN f
        ELSE d

\* a bound that is a number only
BoundEndNumber(s, i, word) == NumberEnd(s, i)

\* end of (word|[+-]?\d+(?:\.\d+)?) at position i, word being MIN or MAX
BoundEnd(s, i, word) == IF At(s, i, word) THEN i + 3 ELSE NumberEnd(s, i)

\* /^\(\s*(MIN|[+-]?\d+(?:\.\d+)?)\s*(?:\.\.\s*(MAX|[+-]?\d+(?:\.\d+)?)\s*)?\)/
RangePattern(s) ==
    IF Ch(s, 1) # "(" THEN NoMatch
    ELSE Bind(WsEnd(s, 2), LAMBDA w1 :
         Bind(BoundEnd(s, w1, "MIN"), LAMBDA b1 :
            IF b1 = w1 THEN NoMatch
            ELSE Bind(WsEnd(s, b1), LAMBDA w2 :
                IF Ch(s, w2) = ")" THEN Match(s, w2, SubSeq(s, w1, b1 - 1))
                ELSE IF ~At(s, w2, "..") THEN NoMatch
                ELSE Bind(WsEnd(s, w2 + 2), LAMBDA w3 :
                     Bind(BoundEnd(s, w3, "MAX"), LAMBDA b2 :
                        LET w4 == WsEnd(s, b2)
                        IN  IF b2 > w3 /\ Ch(s, w4) = ")"
                            THEN [len |-> w4, all |-> Take(s, w4),
                                  g1 |-> SubSeq(s, w1, b1 - 1),
                                  g2 |-> SubSeq(s, w3, b2 - 1), has2 |-> TRUE]
                            ELSE NoMatch)))))

\* /^[a-z][0-9a-z]*(?:-[0-9a-z]+)*/
ItemNamePattern(s) ==
    IF Ch(s, 1) \notin Lower THEN NoMatch
    ELSE Bind(RunEnd(s, 2, LowerNum), LAMBDA j :
         Bind(LowerGroups(s, j), LAMBDA e : Match(s, e - 1, "")))

\* /^\(\s*(\d+)\s*\)/
ItemNumberPattern(s) ==
    IF Ch(s, 1) # "(" THEN NoMatch
    ELSE Bind(WsEnd(s, 2), LAMBDA w1 :
         Bind(DigitsEnd(s, w1), LAMBDA d :
            LET w2 == WsEnd(s, d)
            IN  IF d > w1 /\ Ch(s, w2) = ")"
                THEN Match(s, w2, SubSeq(s, w1, d - 1))
                ELSE NoMatch))

\* /^\[(\d+)\]/
TagPattern(s) ==
    LET d == DigitsEnd(s, 2)
    IN  IF Ch(s, 1) = "[" /\ d > 2 /\ Ch(s, d) = "]"
        THEN Match(s, d, SubSeq(s, 2, d - 1))
        ELSE NoMatch

\* ------------------------------------------------------------------------
\* Line endings, character validation, ParserError
\* ------------------------------------------------------------------------
\* what the character at position i of s becomes when every match of one of
\* the alternatives breaks ("\r\n", "\r") is replaced by "\n"
ReplacedAt(s, i, breaks) ==
    IF /\ Ch(s, i) = "\r"
       /\ ("\r" \in breaks \/ ("\r\n" \in breaks /\ Ch(s, i + 1) = "\n"))
    THEN "\n"
    ELSE IF "\r\n" \in breaks /\ Ch(s, i) = "\n" /\ Ch(s, i - 1) = "\r" THEN ""
    ELSE Ch(s, i)

\* a normalization that forgets the lone carriage return
NormalizeCrLfOnly(s) ==
    Bind(s, LAMBDA v : Gather(LAMBDA t, i : ReplacedAt(t, i, {"\r\n"}), v, 1, Len(v)))

\* content.replaceAll(/\r\n|\r/g, '\n')
NormalizeLineEndings(s) ==
    Bind(s, LAMBDA v : Gather(LAMBDA t, i : ReplacedAt(t, i, {"\r\n", "\r"}), v, 1, Len(v)))

RECURSIVE Search(_, _, _, _)
\* position (from 0) of the first character of s in lo..hi that is not in
\* class, or -1
Search(s, lo, hi, class) ==
    IF lo > hi THEN 0 - 1
    ELSE IF lo = hi THEN (IF Ch(s, lo) \notin class THEN lo - 1 ELSE 0 - 1)
    ELSE LET mid   == (lo + hi) \div 2
             first == Search(s, lo, mid, class)
         IN  IF first >= 0 THEN first ELSE Search(s, mid + 1, hi, class)

\* a validation that lets every whitespace character through: /[^\s\x20-\x7E]/
InvalidCharIndexBlank(s) ==
    Bind(s, LAMBDA v : Search(v, 1, Len(v), ValidChar \cup WhiteSpace))

\* content.search(/[^\t\n\x20-\x7E]/)
InvalidCharIndex(s) == Bind(s, LAMBDA v : Search(v, 1, Len(v), ValidChar))

RECURSIVE Pieces(_, _, _)
\* number of pieces that split('\n') makes of the positions lo..hi of s
Pieces(s, lo, hi) ==
    IF lo > hi THEN 1
    ELSE IF lo = hi THEN (IF Ch(s, lo) = "\n" THEN 2 ELSE 1)
    ELSE LET mid == (lo + hi) \div 2
         IN  Pieces(s, lo, mid) + Pieces(s, mid + 1, hi) - 1

\* s.split('\n').length
SplitLength(s) == Bind(s, LAMBDA v : Pieces(v, 1, Len(v)))

\* a line count that forgets to take the last piece off
ErrorLineOffByOne(cont, index) == 1 + SplitLength(Take(cont, index))

\* the line of a ParserError raised with (content, index)
ErrorLine(cont, index) == 1 + SplitLength(Take(cont, index)) - 1

NoError == [kind |-> "none", pattern |-> "", min |-> Num(0), max |-> Num(0),
            type |-> "", index |-> 0, line |-> 0]

\* new ParserError(message, content, index); the message is kept as its kind
\* and the values interpolated into it
ParserError(kind, pattern, min, max, type, cont, index) ==
    [kind |-> kind, pattern |-> pattern, min |-> min, max |-> max,
     type |-> type, index |-> index, line |-> ErrorLine(cont, index)]

\* ------------------------------------------------------------------------
\* Cursor/Matcher: the remaining text, the offset used for error positions,
\* the last skipped comment; mstart and mend record where the last consumed
\* match began and ended in content
\* ------------------------------------------------------------------------
\* first position at or after i whose character is in class (or the end)
NotRunEnd(s, i, class) ==
    IF i > Len(s) THEN i
    ELSE CHOOSE j \in i..(Len(s) + 1) :
             /\ \A k \in i..(j - 1) : Ch(s, k) \notin class
             /\ j > Len(s) \/ Ch(s, j) \in class

RECURSIVE SkipEnd(_, _)
\* end of the prefix matched by /^(\s|--.*)+/ (1: no match)
SkipEnd(s, i) ==
    IF Ch(s, i) \in WhiteSpace
    THEN Bind(WsEnd(s, i), LAMBDA e : SkipEnd(s, e))
    ELSE IF At(s, i, "--")
    THEN Bind(NotRunEnd(s, i + 2, LineTerminator), LAMBDA e : SkipEnd(s, e))
    ELSE i

\* what the character at position i of s becomes under replace(/--/g, ''):
\* the dashes of a run go by pairs from its left end
DashesRemovedAt(s, i) ==
    IF Ch(s, i) # "-" THEN Ch(s, i)
    ELSE IF (i - RunStart(s, i, {"-"}) + 1) % 2 = 0 \/ Ch(s, i + 1) = "-" THEN ""
    ELSE "-"

\* s.replace(/--/g, '')
RemoveDashes(s) == Bind(s, LAMBDA v : Gather(DashesRemovedAt, v, 1, Len(v)))

\* what the character at position i of s becomes under
\* replace(/[\t ]+/g, ' ')
BlanksCollapsedAt(s, i) ==
    IF Ch(s, i) \notin {"\t", " "} THEN Ch(s, i)
    ELSE IF Ch(s, i - 1) \in {"\t", " "} THEN ""
    ELSE " "

\* s.replace(/[\t ]+/g, ' ')
CollapseBlanks(s) == Bind(s, LAMBDA v : Gather(BlanksCollapsedAt, v, 1, Len(v)))

\* the end of s, which ends at n, without its trailing whitespace
TrimEnd(s, n) ==
    CHOOSE e \in 0..n :
        /\ \A k \in (e + 1)..n : Ch(s, k) \in WhiteSpace
        /\ e = 0 \/ Ch(s, e) \notin WhiteSpace

\* s.trim()
Trim(s) ==
    Bind(s, LAMBDA v :
        LET b == WsEnd(v, 1)
            e == TrimEnd(v, Len(v))
        IN  IF b > e THEN "" ELSE SubSeq(v, b, e))

\* the comment text kept from a skipped run of whitespace and comments
CommentOf(matched) == Trim(CollapseBlanks(RemoveDashes(matched)))

\* skipWhitespaceAndComments() applied to cursor c over content cont
Skip(c, cont) ==
    Bind(SkipEnd(c.text, 1), LAMBDA e :
        LET rest == Drop(c.text, e - 1)
        IN  [c EXCEPT !.text = rest,
                      !.idx  = Len(cont) - Len(rest),
                      !.cmt  = IF e > 1 THEN CommentOf(Take(c.text, e - 1)) ELSE ""])

\* tryMatch(pattern) whose pattern gave match m at cursor c: a failed match
\* leaves the cursor as it is
\* a tryMatch that skips whitespace and comments after a failed match too
TryMatchSkipsAlways(c, m, cont) ==
    IF m.len = 0 THEN Skip(c, cont)
    ELSE Skip([c EXCEPT !.text   = Drop(c.text, m.len),
                        !.mstart = Len(cont) - Len(c.text),
                        !.mend   = Len(cont) - Len(c.text) + m.len], cont)

TryMatch(c, m, cont) ==
    IF m.len = 0 THEN c
    ELSE Skip([c EXCEPT !.text   = Drop(c.text, m.len),
                        !.mstart = Len(cont) - Len(c.text),
                        !.mend   = Len(cont) - Len(c.text) + m.len], cont)

\* an offset taken where the last match ended, before the skip
RequireOffsetMatchEnd(c) == c.mend

\* the offset requireMatch passes to ParserError when its pattern fails at c
RequireOffset(c) == c.idx

\* ------------------------------------------------------------------------
\* Raw definitions. An absent optional property is the empty tuple and a
\* present one a 1-tuple; an absent comment is the empty string and an
\* absent flag FALSE.
\* ------------------------------------------------------------------------
EmptyNode == [name |-> "", type |-> "", primitive |-> <<>>, series |-> <<>>,
              size |-> <<>>, range |-> <<>>, items |-> <<>>, extensible |-> FALSE,
              comment |-> "", number |-> <<>>, optional |-> FALSE]

\* the items of a raw node, none when it has no item list
RawItems(d) == IF d.items = <<>> THEN <<>> ELSE d.items[1]

SimpleTypes == {"BitString", "Enumerated"}

ComplexTypes == {"CHOICE", "SEQUENCE"}

\* a test that forgets the types without items
CanHaveItemsAlways(type) == TRUE

\* the types parseItems lets carry an item list
CanHaveItems(type) == type \in SimpleTypes \/ type \in ComplexTypes

\* a test on the integer parts of the bounds, as if read with parseInt
InvalidRangeTruncated(minValue, maxValue) ==
    LET Trunc(v) == IF v.k = "num" THEN [v EXCEPT !.n = IF v.n >= 0 THEN v.n \div v.d
                                                        ELSE 0 - ((0 - v.n) \div v.d),
                                                 !.d = 1]
                    ELSE v
    IN  NumGT(Trunc(minValue), Trunc(maxValue))

\* the test of parseRangeConstraint for an invalid constraint
InvalidRange(minValue, maxValue) == NumGT(minValue, maxValue)

\* the offset parseRangeConstraint passes to ParserError: currentIndex, once
\* the constraint that began at cursor c0 has been consumed up to cursor c1
RangeErrorOffset(c0, c1) == c1.idx

\* a marker tried in every list
MarkerAllowedAlways(type) == TRUE

\* the extensibility marker is tried after a comma in every list but SEQUENCE
MarkerAllowed(type) == type # "SEQUENCE"

\* ------------------------------------------------------------------------
\* State
\* ------------------------------------------------------------------------
VARIABLES
    input,        \* the argument of parse ("" before the call)
    canon,        \* the same text with every line break written "\n"
    content,      \* parse: content, after the line endings are normalized
    text,         \* parse: the text still to be parsed
    currentIndex, \* parse: offset of text in content, for error reporting
    lastComment,  \* parse: comment kept by the last skip
    lastMatch,    \* offsets in content where the last consumed match began and ended
    stack,        \* the nodes under construction, outermost first
    definitions,  \* parse: the definitions completed so far
    pc,           \* position in parse
    error,        \* the ParserError raised, when pc = "error"
    normalized,   \* results of normalize on the returned definitions
    firstCall     \* how an earlier call of parse on the same text ended, if any

vars == <<input, canon, content, text, currentIndex, lastComment, lastMatch,
          stack, definitions, pc, error, normalized, firstCall>>

Cur == [text |-> text, idx |-> currentIndex, cmt |-> lastComment,
        mstart |-> lastMatch.start, mend |-> lastMatch.end]

Top == stack[Len(stack)]

SetTop(stk, node) == [stk EXCEPT ![Len(stk)] = node]

Pop(stk) == SubSeq(stk, 1, Len(stk) - 1)

\* the state a step of parse leaves: the cursor, the nodes under
\* construction, the definitions, the position and the error raised
Goto(c, stk, npc) ==
    [c |-> c, stack |-> stk, definitions |-> definitions, pc |-> npc, error |-> NoError]

\* throw e, the cursor being c
Raise(c, e) ==
    [c |-> c, stack |-> stack, definitions |-> definitions, pc |-> "error", error |-> e]

\* the step that leaves state res
Apply(res) ==
    \E r \in {res} :
       /\ text' = r.c.text
       /\ currentIndex' = r.c.idx
       /\ lastComment' = r.c.cmt
       /\ lastMatch' = [start |-> r.c.mstart, end |-> r.c.mend]
       /\ stack' = r.stack
       /\ definitions' = r.definitions
       /\ pc' = r.pc
       /\ error' = r.error
       /\ UNCHANGED <<input, canon, content, normalized, firstCall>>

SyntaxError(c, pattern) ==
    ParserError("syntax", pattern, Num(0), Num(0), "", content, RequireOffset(c))

\* ------------------------------------------------------------------------
\* parseRangeConstraint(item, isSize) at cursor c: the cursor after it, the
\* constraint read (if any) and the error raised (if any)
\* ------------------------------------------------------------------------
ParseRangeConstraint(c, isSize) ==
    Bind(RangePattern(c.text), LAMBDA m :
        LET c1       == TryMatch(c, m, content)
            minValue == IF m.g1 = "MIN" THEN NegInf ELSE ParseFloat(m.g1)
            maxValue == IF m.has2
                        THEN (IF m.g2 = "MAX" THEN PosInf ELSE ParseFloat(m.g2))
                        ELSE minValue
        IN  IF m.len = 0
            THEN [c |-> c, val |-> <<>>,
                  err |-> IF isSize THEN SyntaxError(c, "range") ELSE NoError]
            ELSE IF InvalidRange(minValue, maxValue)
            THEN [c |-> c1, val |-> <<>>,
                  err |-> ParserError("range", "", minValue, maxValue, "", content,
                                      RangeErrorOffset(c, c1))]
            ELSE [c |-> c1, val |-> <<[min |-> minValue, max |-> maxValue]>>,
                  err |-> NoError])

\* a base type that tries the identifier before the four words
BaseTypeIdentifierFirst(s) ==
    LET any  == Literal(s, "ABSTRACT-SYNTAX.&Type")
        enum == Literal(s, "ENUMERATED")
        bits == WordsPattern(s, "BIT")
        octs == WordsPattern(s, "OCTET")
        ref  == TypeRefPattern(s)
    IN  IF ref.len > 0 THEN [m |-> ref, type |-> ref.all]
        ELSE IF any.len > 0 THEN [m |-> any, type |-> "Any"]
        ELSE IF enum.len > 0 THEN [m |-> enum, type |-> "Enumerated"]
        ELSE IF bits.len > 0 THEN [m |-> bits, type |-> "BitString"]
        ELSE [m |-> octs, type |-> "OctetString"]

\* the base type of parseType at text s: the first of the five patterns that
\* matches, and the type it yields
BaseType(s) ==
    LET any  == Literal(s, "ABSTRACT-SYNTAX.&Type")
        enum == Literal(s, "ENUMERATED")
        bits == WordsPattern(s, "BIT")
        octs == WordsPattern(s, "OCTET")
        ref  == TypeRefPattern(s)
    IN  IF any.len > 0 THEN [m |-> any, type |-> "Any"]
        ELSE IF enum.len > 0 THEN [m |-> enum, type |-> "Enumerated"]
        ELSE IF bits.len > 0 THEN [m |-> bits, type |-> "BitString"]
        ELSE IF octs.len > 0 THEN [m |-> octs, type |-> "OctetString"]
        ELSE [m |-> ref, type |-> ref.all]

\* ------------------------------------------------------------------------
\* parse
\* ------------------------------------------------------------------------
\* an entry that goes on with the definitions of the call before
EnterKeepingDefinitions(cont) ==
    Bind(InvalidCharIndex(cont), LAMBDA bad :
        LET c == [text |-> cont, idx |-> 0, cmt |-> "", mstart |-> 0, mend |-> 0]
        IN  IF bad >= 0
            THEN [c |-> c, stack |-> <<>>, definitions |-> definitions, pc |-> "error",
                  error |-> ParserError("invalid", "", Num(0), Num(0), "", cont, bad)]
            ELSE [c |-> c, stack |-> <<>>, definitions |-> definitions, pc |-> "top",
                  error |-> NoError])

\* the entry of parse on the content cont, its line endings normalized: the
\* character validation and the set-up of the cursor, the last comment and
\* the list of definitions, all of them local to the call
Enter(cont) ==
    Bind(InvalidCharIndex(cont), LAMBDA bad :
        LET c == [text |-> cont, idx |-> 0, cmt |-> "", mstart |-> 0, mend |-> 0]
        IN  IF bad >= 0
            THEN [c |-> c, stack |-> <<>>, definitions |-> <<>>, pc |-> "error",
                  error |-> ParserError("invalid", "", Num(0), Num(0), "", cont, bad)]
            ELSE [c |-> c, stack |-> <<>>, definitions |-> <<>>, pc |-> "top",
                  error |-> NoError])

\* parse(in) is called; lf is in with every line break written "\n"
Parse(in, lf) ==
    /\ \E cont \in {NormalizeLineEndings(in)} :
          /\ input' = in
          /\ canon' = lf
          /\ content' = cont
          /\ \E r \in {Enter(cont)} :
                /\ text' = r.c.text
                /\ currentIndex' = r.c.idx
                /\ lastComment' = r.c.cmt
                /\ lastMatch' = [start |-> r.c.mstart, end |-> r.c.mend]
                /\ stack' = r.stack
                /\ definitions' = r.definitions
                /\ pc' = r.pc
                /\ error' = r.error

\* one turn of the top-level loop up to the call of parseType: the skip, the
\* end of input, the header and the APPLICATION tag of parseDefinition
ParseDefinition ==
    /\ pc = "top"
    /\ \E c1 \in {Skip(Cur, content)} :
       \E mh \in {HeaderPattern(c1.text)} :
       \E c2 \in {TryMatch(c1, mh, content)} :
       \E ma \in {ApplicationPattern(c2.text)} :
       \E c3 \in {TryMatch(c2, ma, content)} :
          Apply(IF c1.text = "" THEN Goto(c1, stack, "done")
                ELSE IF mh.len = 0 THEN Raise(c1, SyntaxError(c1, "header"))
                ELSE Goto(c3, <<[EmptyNode EXCEPT
                                   !.name = mh.g1,
                                   !.primitive = IF ma.len > 0 THEN <<ParseInt(ma.g1)>>
                                                 ELSE <<>>]>>,
                          "type"))

\* parseType: the SEQUENCE OF marker and the base type
ParseType ==
    /\ pc = "type"
    /\ \E ms \in {SeriesPattern(text)} :
       \E c1 \in {TryMatch(Cur, ms, content)} :
       \E bt \in {BaseType(c1.text)} :
       \E c2 \in {TryMatch(c1, bt.m, content)} :
       \E series \in {IF ms.len = 0 THEN <<>>
                      ELSE IF ms.g1 # "" THEN <<[of |-> "count", n |-> ParseInt(ms.g1)]>>
                      ELSE <<[of |-> "true", n |-> 0]>>} :
          Apply(IF bt.m.len = 0 THEN Raise(c1, SyntaxError(c1, "type"))
                ELSE Goto(c2, SetTop(stack, [Top EXCEPT !.series = series,
                                                        !.type = bt.type]),
                          "size"))

\* parseType: the SIZE constraint
ParseSize ==
    /\ pc = "size"
    /\ \E ms \in {SizePattern(text)} :
       \E c1 \in {TryMatch(Cur, ms, content)} :
       \E r  \in {ParseRangeConstraint(c1, TRUE)} :
       \E mp \in {Literal(r.c.text, ")")} :
       \E c2 \in {TryMatch(r.c, mp, content)} :
          Apply(IF ms.len = 0 THEN Goto(Cur, stack, "range")
                ELSE IF r.err.kind # "none" THEN Raise(r.c, r.err)
                ELSE IF StartsWith(ms.all, "(")
                THEN (IF mp.len = 0 THEN Raise(r.c, SyntaxError(r.c, ")"))
                      ELSE Goto(c2, SetTop(stack, [Top EXCEPT !.size = r.val]), "range"))
                ELSE Goto(r.c, SetTop(stack, [Top EXCEPT !.size = r.val]), "range"))

\* parseType: the value range constraint
ParseRange ==
    /\ pc = "range"
    /\ \E r \in {ParseRangeConstraint(Cur, FALSE)} :
          Apply(IF r.err.kind # "none" THEN Raise(r.c, r.err)
                ELSE Goto(r.c, SetTop(stack, [Top EXCEPT !.range = r.val]), "items"))

\* parseItems up to its loop: the opening brace and the test of the type
ParseItems ==
    /\ pc = "items"
    /\ \E mb \in {Literal(text, "{")} :
       \E c1 \in {TryMatch(Cur, mb, content)} :
          Apply(IF mb.len = 0 THEN Goto(Cur, stack, "ret")
                ELSE IF ~CanHaveItems(Top.type)
                THEN Raise(c1, ParserError("items", "", Num(0), Num(0), Top.type,
                                           content, c1.idx))
                ELSE Goto(c1, SetTop(stack, [Top EXCEPT !.items = << <<>> >>]), "loop"))

\* a loop that also ends at a closing brace
LoopEndsAtBrace(c) == c.text = "" \/ StartsWith(c.text, "}")

\* while (skipWhitespaceAndComments()): the loop of parseItems ends when the
\* skip, which left the cursor c, returns false: no text is left
LoopEnds(c) == c.text = ""

\* a loop that tries the item name and goes round again when it is absent
MissingItemNameRetry(c) == Goto(c, stack, "loop")

\* requireMatch of the item name, the name being absent at cursor c
MissingItemName(c) == Raise(c, SyntaxError(c, "name"))

\* one turn of the loop of parseItems up to the end of a simple item or to
\* the call of parseType for a complex one
ParseItem ==
    /\ pc = "loop"
    /\ \E c1 \in {Skip(Cur, content)} :
       \E mn \in {ItemNamePattern(c1.text)} :
       \E c2 \in {TryMatch(c1, mn, content)} :
       \E mv \in {ItemNumberPattern(c2.text)} :
       \E c3 \in {TryMatch(c2, mv, content)} :
       \E mt \in {TagPattern(c2.text)} :
       \E c4 \in {TryMatch(c2, mt, content)} :
       \E item \in {[EmptyNode EXCEPT !.name = mn.all]} :
          Apply(IF LoopEnds(c1) THEN Goto(c1, stack, "close")
                ELSE IF mn.len = 0 THEN MissingItemName(c1)
                ELSE IF Top.type \in SimpleTypes
                THEN (IF mv.len = 0 THEN Raise(c2, SyntaxError(c2, "number"))
                      ELSE Goto(c3, Append(stack, [item EXCEPT
                                                     !.number = <<ParseInt(mv.g1)>>]),
                                "itemEnd"))
                ELSE Goto(c4, Append(stack,
                            [item EXCEPT !.number = IF mt.len > 0 THEN <<ParseInt(mt.g1)>>
                                                    ELSE <<>>]),
                          "type"))

\* parseType returns: to the top-level loop, which keeps the definition, or to
\* the loop of parseItems, which tries OPTIONAL
Return ==
    /\ pc = "ret"
    /\ \E mo \in {Literal(text, "OPTIONAL")} :
       \E c1 \in {TryMatch(Cur, mo, content)} :
          Apply(IF Len(stack) = 1
                THEN [Goto(Cur, <<>>, "top") EXCEPT
                        !.definitions = Append(definitions, Top)]
                ELSE Goto(c1, SetTop(stack, [Top EXCEPT !.optional = (mo.len > 0)]),
                          "itemEnd"))

\* the end of a turn of the loop of parseItems: the comment, the push, the
\* comma and the extensibility marker
EndItem ==
    /\ pc = "itemEnd"
    /\ \E item \in {IF lastComment # "" THEN [Top EXCEPT !.comment = lastComment]
                    ELSE Top} :
       \E parent \in {stack[Len(stack) - 1]} :
       \E pushed \in {[parent EXCEPT !.items = <<Append(parent.items[1], item)>>]} :
       \E mc \in {Literal(text, ",")} :
       \E c1 \in {TryMatch(Cur, mc, content)} :
       \E me \in {Literal(c1.text, "...")} :
       \E c2 \in {TryMatch(c1, me, content)} :
          Apply(IF mc.len = 0 THEN Goto(Cur, SetTop(Pop(stack), pushed), "close")
                ELSE IF MarkerAllowed(parent.type) /\ me.len > 0
                THEN Goto(c2, SetTop(Pop(stack), [pushed EXCEPT !.extensible = TRUE]),
                          "close")
                ELSE Goto(c1, SetTop(Pop(stack), pushed), "loop"))

\* the end of parseItems: the closing brace and the comment of the definition
CloseItems ==
    /\ pc = "close"
    /\ \E mb \in {Literal(text, "}")} :
       \E c1 \in {TryMatch(Cur, mb, content)} :
          Apply(IF mb.len = 0 THEN Raise(Cur, SyntaxError(Cur, "}"))
                ELSE Goto(c1, SetTop(stack, IF c1.cmt # "" THEN [Top EXCEPT
                                                                   !.comment = c1.cmt]
                                            ELSE Top),
                          "ret"))

\* ------------------------------------------------------------------------
\* toBaclibName
\* ------------------------------------------------------------------------
UpperLetters == "ABCDEFGHIJKLMNOPQRSTUVWXYZ"

LowerLetters == "abcdefghijklmnopqrstuvwxyz"

LowerChar(c) ==
    IF c \in Upper
    THEN LET i == CHOOSE j \in 1..26 : Ch(UpperLetters, j) = c IN Ch(LowerLetters, i)
    ELSE c

RECURSIVE ToLowerCase(_)
ToLowerCase(s) == IF s = "" THEN "" ELSE LowerChar(Head(s)) \o ToLowerCase(Tail(s))

RECURSIVE ReplaceBACnet(_)
\* s.replace(/BACnet/g, 'Bacnet')
ReplaceBACnet(s) ==
    IF s = "" THEN ""
    ELSE IF StartsWith(s, "BACnet") THEN "Bacnet" \o ReplaceBACnet(Drop(s, 6))
    ELSE Head(s) \o ReplaceBACnet(Tail(s))

RECURSIVE DashPairs(_, _, _)
\* s.replace(/([first])([second])/g, '$1-$2')
DashPairs(s, first, second) ==
    IF s = "" THEN ""
    ELSE IF Ch(s, 1) \in first /\ Ch(s, 2) \in second
    THEN Take(s, 1) \o "-" \o Ch(s, 2) \o DashPairs(Drop(s, 2), first, second)
    ELSE Head(s) \o DashPairs(Tail(s), first, second)

RECURSIVE DashAcronym(_)
\* s.replace(/([A-Z])([A-Z][a-z])/g, '$1-$2')
DashAcronym(s) ==
    IF s = "" THEN ""
    ELSE IF Ch(s, 1) \in Upper /\ Ch(s, 2) \in Upper /\ Ch(s, 3) \in Lower
    THEN Take(s, 1) \o "-" \o SubSeq(s, 2, 3) \o DashAcronym(Drop(s, 3))
    ELSE Head(s) \o DashAcronym(Tail(s))

\* toBaclibName(string, prefix); prefix is <<>> for undefined and <<p>> for
\* the string p that a given prefix stands for ("" for false)
ToBaclibName(string, prefix) ==
    LET str == IF prefix # <<>> /\ StartsWith(string, "BACnet")
               THEN prefix[1] \o Drop(string, IF At(string, 7, "-") THEN 7 ELSE 6)
               ELSE string
        kebab == DashAcronym(DashPairs(ReplaceBACnet(str), LowerNum, Upper))
        result == IF Ch(str, 1) \in Upper
                  THEN DashPairs(kebab, Upper \cup Lower, Digit)
                  ELSE kebab
    IN  ToLowerCase(result)

\* ------------------------------------------------------------------------
\* Normalized definitions. A type is a reference name (ref), or an object
\* with a base and traits (obj), or, for a nested item with traits, the whole
\* normalized item (def).
\* ------------------------------------------------------------------------
TypeRef(name) == [ref |-> name, obj |-> <<>>, def |-> <<>>]

NoTraits == [series |-> <<>>, minimum |-> <<>>, maximum |-> <<>>, length |-> <<>>,
             listName |-> "", list |-> <<>>, proprietary |-> <<>>]

TypeObj(base, traits) ==
    [ref |-> "", obj |-> <<[base |-> base, traits |-> traits]>>, def |-> <<>>]

TypeDef(result) == [ref |-> "", obj |-> <<>>, def |-> <<result>>]

\* normalizeItem(definition, prefix)
NormalizeItem(definition, prefix) ==
    LET alias == definition.name
        name  == ToBaclibName(alias, prefix)
    IN  [alias |-> IF alias = name THEN <<>> ELSE <<alias>>, name |-> name,
         primitive |-> <<>>, type |-> TypeRef(""),
         numberName |-> "", number |-> <<>>, context |-> <<>>, optional |-> <<>>]

RECURSIVE InsertByNumber(_, _)
InsertByNumber(sorted, item) ==
    IF sorted = <<>> THEN <<item>>
    ELSE IF item.number[1] < Head(sorted).number[1]
    THEN <<item>> \o sorted
    ELSE <<Head(sorted)>> \o InsertByNumber(Tail(sorted), item)

\* the items left in the order of the source text
SortByNumberSkipped(items) == items

RECURSIVE SortByNumber(_)
\* items.slice().sort((a, b) => a.number - b.number): a stable sort
SortByNumber(items) ==
    IF items = <<>> THEN <<>>
    ELSE InsertByNumber(SortByNumber(SubSeq(items, 1, Len(items) - 1)), items[Len(items)])

RECURSIVE MaxNumber(_)
\* Math.max(...items.map(item => item.number))
MaxNumber(items) ==
    IF Len(items) = 1 THEN items[1].number[1]
    ELSE LET m == MaxNumber(Tail(items))
         IN  IF items[1].number[1] > m THEN items[1].number[1] ELSE m

Span(from, to) == [from |-> from, to |-> to]

\* a length trait: one number, or the pair {minimum, maximum}
Length(minimum, maximum) ==
    [one |-> FALSE, minimum |-> Num(minimum), maximum |-> Num(maximum)]

\* a maximum taken from the lower bound
RangeTraitsMinTwice(range) ==
    [series |-> <<>>, minimum |-> <<range.min>>, maximum |-> <<range.min>>,
     length |-> <<>>, listName |-> "", list |-> <<>>, proprietary |-> <<>>]

\* a range of one value collapsed to that value, as for a size
RangeTraitsCollapsed(range) ==
    IF range.min = range.max
    THEN [series |-> <<>>, minimum |-> <<>>, maximum |-> <<range.max>>,
          length |-> <<>>, listName |-> "", list |-> <<>>, proprietary |-> <<>>]
    ELSE [series |-> <<>>, minimum |-> <<range.min>>, maximum |-> <<range.max>>,
          length |-> <<>>, listName |-> "", list |-> <<>>, proprietary |-> <<>>]

\* { minimum: definition.range.min, maximum: definition.range.max }
RangeTraits(range) ==
    [series |-> <<>>, minimum |-> <<range.min>>, maximum |-> <<range.max>>,
     length |-> <<>>, listName |-> "", list |-> <<>>, proprietary |-> <<>>]

\* a length that is always the pair
StringLengthPair(minimum, maximum) ==
    [one |-> FALSE, minimum |-> minimum, maximum |-> maximum]

\* minimum === maximum ? maximum : { minimum, maximum }
StringLength(minimum, maximum) ==
    [one |-> (minimum = maximum), minimum |-> minimum, maximum |-> maximum]

\* what the character at position i of s becomes when /\s+/g is replaced
\* by ' '
SqueezedAt(s, i) ==
    IF Ch(s, i) \notin WhiteSpace THEN Ch(s, i)
    ELSE IF i > 1 /\ Ch(s, i - 1) \in WhiteSpace THEN ""
    ELSE " "

\* comment.replace(/\s+/g, ' ')
Squeeze(s) == Bind(s, LAMBDA v : Gather(SqueezedAt, v, 1, Len(v)))

\* the four numbers of the match of
\* /^Enumerated values (\d+)-(\d+) are reserved for definition by ASHRAE\. Enumerated values (\d+)-(\d+) may be used by others/
\* in s, or <<>> when s does not match
SentenceMatch(s) ==
    LET p1 == 19
        e1 == DigitsEnd(s, p1)
        e2 == DigitsEnd(s, e1 + 1)
        l2 == " are reserved for definition by ASHRAE. Enumerated values "
        p3 == e2 + Len(l2)
        e3 == DigitsEnd(s, p3)
        e4 == DigitsEnd(s, e3 + 1)
    IN  IF /\ At(s, 1, "Enumerated values ") /\ e1 > p1 /\ Ch(s, e1) = "-"
           /\ e2 > e1 + 1 /\ At(s, e2, l2) /\ e3 > p3 /\ Ch(s, e3) = "-"
           /\ e4 > e3 + 1 /\ At(s, e4, " may be used by others")
        THEN <<ParseInt(SubSeq(s, p1, e1 - 1)), ParseInt(SubSeq(s, e1 + 1, e2 - 1)),
               ParseInt(SubSeq(s, p3, e3 - 1)), ParseInt(SubSeq(s, e3 + 1, e4 - 1))>>
        ELSE <<>>

\* definition.comment?.replace(/\s+/g, ' ').match(regex)
StandardComment(comment) == Bind(Squeeze(comment), LAMBDA s : SentenceMatch(s))

\* a span taken from the first pair of the sentence
ProprietaryOfFirstPair(m) == Span(m[1], m[2])

\* { from: parseInt(match[3], 10), to: parseInt(match[4], 10) }
ProprietaryOf(m) == Span(m[3], m[4])

\* every definition taken for an extensible one
IsExtensibleAlways(definition) == TRUE

\* the test !definition.extensible, negated
IsExtensible(definition) == definition.extensible

\* enhanceKnownTypes(definition, traits): the traits as it leaves them
EnhanceKnownTypes(definition, traits) ==
    CASE definition.name = "BACnetEngineeringUnits" ->
           [traits EXCEPT !.maximum = <<Num(65535)>>,
                          !.proprietary = <<Span(256, 47807), Span(50000, 65535)>>]
      [] definition.name = "BACnetPropertyIdentifier" ->
           [traits EXCEPT !.maximum = <<UInt32Max>>,
                          !.proprietary = <<Span(512, 4194303)>>]
      [] definition.name = "BACnetAuditOperationFlags" ->
           [traits EXCEPT
              !.length = <<Length(MaxNumber(definition.items[1]) + 1, 64)>>,
              !.proprietary = <<Span(32, 63)>>]
      [] definition.name = "BACnetObjectTypesSupported" ->
           [traits EXCEPT !.length = <<Length(18, 1024)>>,
                          !.proprietary = <<Span(128, 1023)>>]
      [] definition.name = "BACnetServicesSupported" ->
           [traits EXCEPT !.length = <<Length(35, 512)>>]
      [] OTHER ->
           IF ~IsExtensible(definition) THEN traits
           ELSE IF definition.type # "Enumerated"
           THEN [traits EXCEPT !.proprietary = <<Span(1, 0)>>]
           ELSE Bind(StandardComment(definition.comment), LAMBDA m :
                  IF m # <<>>
                  THEN [traits EXCEPT
                          !.minimum = IF m[1] # 0 THEN <<Num(m[1])>> ELSE traits.minimum,
                          !.maximum = <<Num(m[4] + 1)>>,
                          !.proprietary = <<ProprietaryOf(m)>>]
                  ELSE [traits EXCEPT !.proprietary = <<Span(1, 0)>>])

NumericTypes == {"Unsigned", "Integer", "Real", "Double"}

StringTypes == {"OctetString", "CharacterString"}

\* the property that holds the items of a type, and the one that holds the
\* number of an item ("": none)
ItemsName(type) ==
    CASE type = "BitString" -> "bits" [] type = "Enumerated" -> "values"
      [] type = "CHOICE" -> "options" [] type = "SEQUENCE" -> "fields"
      [] OTHER -> ""

ItemsNumber(type) ==
    CASE type = "BitString" -> "position" [] type = "Enumerated" -> "constant"
      [] OTHER -> ""

\* a flag set for the items of every type and written also when it is false
OptionalOfCopied(definition, item) == <<item.optional>>

\* if (definition.type === 'SEQUENCE' && item.optional) element.optional = true:
\* the property optional of the element, absent unless it is set
OptionalOf(definition, item) ==
    IF definition.type = "SEQUENCE" /\ item.optional THEN <<TRUE>> ELSE <<>>

\* items sorted by number whenever each of them has one
OrderedItemsByTag(definition) ==
    IF \A k \in 1..Len(definition.items[1]) : definition.items[1][k].number # <<>>
    THEN SortByNumber(definition.items[1])
    ELSE definition.items[1]

\* itemsNumber ? definition.items.slice().sort(...) : definition.items
OrderedItems(definition) ==
    IF ItemsNumber(definition.type) # "" THEN SortByNumber(definition.items[1])
    ELSE definition.items[1]

RECURSIVE NormalizeDefinition(_, _)
\* normalizeDefinition(definition, level)
NormalizeDefinition(definition, level) ==
    LET result == NormalizeItem(definition, IF level # 0 THEN <<>> ELSE <<"">>)
        base   == ToBaclibName(definition.type, <<"">>)
        kind   == IF definition.type \in NumericTypes /\ definition.range # <<>>
                  THEN RangeTraits(definition.range[1])
                  ELSE IF definition.type \in StringTypes /\ definition.size # <<>>
                  THEN [NoTraits EXCEPT
                          !.length = <<StringLength(definition.size[1].min,
                                                    definition.size[1].max)>>]
                  ELSE NoTraits
        \* a series of 0 is falsy and is not copied
        withSeries == IF /\ definition.series # <<>>
                         /\ ~(definition.series[1].of = "count" /\ definition.series[1].n = 0)
                      THEN [kind EXCEPT !.series = definition.series]
                      ELSE kind
        hasItems == definition.items # <<>> /\ Len(definition.items[1]) > 0
        itemsNumber == ItemsNumber(definition.type)
        items  == IF ~hasItems THEN <<>> ELSE OrderedItems(definition)
        Element(item) ==
            LET element == NormalizeItem(item, <<>>)
            IN  IF itemsNumber # ""
                THEN [element EXCEPT !.numberName = itemsNumber, !.number = item.number]
                ELSE [element EXCEPT
                        !.type = NormalizeDefinition(item, level + 1),
                        !.context = IF item.number # <<>> /\ item.number[1] >= 0
                                    THEN item.number ELSE <<>>,
                        !.optional = OptionalOf(definition, item)]
        listed == [NoTraits EXCEPT !.listName = ItemsName(definition.type),
                                   !.list = [i \in 1..Len(items) |-> Element(items[i])]]
        traits == IF hasItems THEN EnhanceKnownTypes(definition, listed) ELSE withSeries
    IN  IF hasItems \/ traits # NoTraits
        THEN TypeDef([result EXCEPT !.type = TypeObj(base, traits)])
        ELSE IF level # 0 THEN TypeRef(base)
        ELSE TypeDef([result EXCEPT !.type = TypeRef(base)])

\* ------------------------------------------------------------------------
\* The predefined-type registry and normalize
\* ------------------------------------------------------------------------
\* records of the predefined directory, as generatePredefined writes them
PredefinedFiles ==
    LET record == NormalizeItem([name |-> ""], <<>>)
    IN  << [record EXCEPT !.alias = <<"Null">>, !.name = "null", !.primitive = <<0>>],
           [record EXCEPT !.alias = <<"Unsigned8">>, !.name = "unsigned-8",
                          !.type = TypeObj("unsigned",
                                     [NoTraits EXCEPT !.minimum = <<Num(0)>>,
                                                      !.maximum = <<Num(255)>>])] >>

\* the Map built by the loader: every record under its alias and its name
predefinedTypes ==
    LET keys == {PredefinedFiles[i].alias[1] : i \in DOMAIN PredefinedFiles}
                \cup {PredefinedFiles[i].name : i \in DOMAIN PredefinedFiles}
        last(k) == CHOOSE i \in DOMAIN PredefinedFiles :
                     /\ k \in {PredefinedFiles[i].alias[1], PredefinedFiles[i].name}
                     /\ \A j \in DOMAIN PredefinedFiles :
                          k \in {PredefinedFiles[j].alias[1], PredefinedFiles[j].name}
                          => j <= i
    IN  [k \in keys |-> PredefinedFiles[last(k)]]

\* a normalize that prefers the fresh result
NormalizeTopFresh(definition) == NormalizeDefinition(definition, 0).def[1]

\* the outcome of a call that ends with throw new Error(message)
Thrown(message) == [thrown |-> message]

RECURSIVE NormalizeThrowsEveryItem(_)
\* a normalizer that descends into the items of every type
NormalizeThrowsEveryItem(definition) ==
    IF definition.name = "" THEN <<"Definition must have a name string.">>
    ELSE IF definition.type = "" THEN <<"Definition must have a type.">>
    ELSE LET items == RawItems(definition)
             at(k) == NormalizeThrowsEveryItem(items[k])
             bad   == {k \in 1..Len(items) : at(k) # <<>>}
         IN  IF bad = {} THEN <<>>
             ELSE at(CHOOSE k \in bad : \A j \in bad : k <= j)

RECURSIVE NormalizeThrows(_)
\* the Error normalizeDefinition throws for a definition, <<>> when it
\* returns: normalizeItem wants a name of the definition and of each of its
\* items, normalizeDefinition a type of the definition and of each item it
\* descends into, those of a CHOICE or SEQUENCE; the first throw ends the call
NormalizeThrows(definition) ==
    IF definition.name = "" THEN <<"Definition must have a name string.">>
    ELSE IF definition.type = "" THEN <<"Definition must have a type.">>
    ELSE LET items == RawItems(definition)
             at(k) == IF items[k].name = ""
                      THEN <<"Definition must have a name string.">>
                      ELSE IF ItemsNumber(definition.type) # "" THEN <<>>
                      ELSE NormalizeThrows(items[k])
             bad   == {k \in 1..Len(items) : at(k) # <<>>}
         IN  IF bad = {} THEN <<>>
             ELSE at(CHOOSE k \in bad : \A j \in bad : k <= j)

\* normalize(definition)
NormalizeTop(definition) ==
    IF definition.name \in DOMAIN predefinedTypes
    THEN predefinedTypes[definition.name]
    ELSE IF NormalizeThrows(definition) # <<>>
    THEN Thrown(NormalizeThrows(definition)[1])
    ELSE NormalizeDefinition(definition, 0).def[1]

\* a sort made on the items array of the argument itself
ArgumentAfterSortInPlace(definition) ==
    IF ItemsNumber(definition.type) # "" /\ Len(RawItems(definition)) > 0
    THEN [definition EXCEPT !.items = <<SortByNumber(RawItems(definition))>>]
    ELSE definition

\* the argument as normalizeDefinition leaves it: the sort is made on a copy
\* (definition.items.slice()), map builds a new array, the elements and the
\* traits are new objects and enhanceKnownTypes writes to the traits only
ArgumentAfter(definition) == definition

\* the caller maps normalize over the definitions parse returned; a
\* definition found in the registry is not passed to normalizeDefinition
Normalize ==
    /\ pc = "done"
    /\ Len(normalized) < Len(definitions)
    /\ \A i \in 1..Len(normalized) : "thrown" \notin DOMAIN normalized[i]
    /\ normalized' = Append(normalized, NormalizeTop(definitions[Len(normalized) + 1]))
    /\ definitions' =
          [definitions EXCEPT ![Len(normalized) + 1] =
             IF @.name \in DOMAIN predefinedTypes THEN @ ELSE ArgumentAfter(@)]
    /\ UNCHANGED <<input, canon, content, text, currentIndex, lastComment, lastMatch,
                   stack, pc, error, firstCall>>

\* ------------------------------------------------------------------------
\* Inputs: a sequence of tokens, a blank between two tokens, and one gap
\* (before, between or after the tokens) filled with a separator of choice
\* ------------------------------------------------------------------------
\* the separators, as written in the input (raw) and with each of their line
\* breaks written "\n" (lf)
Separators ==
    { [raw |-> "",         lf |-> ""],
      [raw |-> "\r\n",     lf |-> "\n"],
      [raw |-> "\n\t\r\r\n", lf |-> "\n\t\n\n"],
      [raw |-> "--c--d\r\n --e\r", lf |-> "--c--d\n --e\n"],
      [raw |-> "\f",       lf |-> "\f"],
      [raw |-> " --\f\n",  lf |-> " --\f\n"] }

RECURSIVE Build(_, _, _, _)
\* the text of tokens from the i-th gap on, gap g holding sep
Build(tokens, i, g, sep) ==
    LET gap == IF i = g THEN sep
               ELSE IF i = 0 \/ i = Len(tokens) THEN "" ELSE " "
    IN  IF i = Len(tokens) THEN gap
        ELSE gap \o tokens[i + 1] \o Build(tokens, i + 1, g, sep)

Digits == "0123456789"

NumTexts == {Ch(Digits, n + 1) : n \in 0..MaxNum}

Header(name) == <<name, "::=">>

RangeForms ==
    {<<"(", lo, ")">> : lo \in {"MIN"} \cup NumTexts}
    \cup {<<"(", lo, "..", hi, ")">> : lo \in {"MIN"} \cup NumTexts,
                                         hi \in {"MAX"} \cup NumTexts}
    \cup {<<"(", "MAX", ")">>, <<"(", "0", "..", "MIN", ")">>,
          <<"(", "-1", "..", "+1.5", ")">>, <<"(", "1.50", "..", "1.5", ")">>,
          <<"(", "1.5", "..", "-1", ")">>, <<"(", "1.5", "..", "1", ")">>}

SizeForms == {<<"(", "1", ")">>, <<"(", "1", "..", "2", ")">>, <<"(", "2", "..", "1", ")">>}

RangeCases == {Header("Foo") \o <<"Unsigned">> \o r : r \in RangeForms}

SizeCases ==
    {Header("Foo") \o <<"OCTET", "STRING", "SIZE">> \o r : r \in SizeForms}
    \cup {Header("Foo") \o <<"OCTET", "STRING", "(", "SIZE">> \o r \o <<")">> : r \in SizeForms}
    \cup {Header("Foo") \o <<"OCTET", "STRING", "(", "SIZE", "(", "1", ")">>,
          Header("Foo") \o <<"OCTET", "STRING", "SIZE", "Bar">>}

SeveralCases ==
    {Header("Foo") \o <<"Unsigned">> \o r \o Header("Unsigned8") \o <<"Real">> :
        r \in {<<>>, <<"(", "0", "..", "1", ")">>, <<"(", "1", "..", "0", ")">>}}
    \cup {Header("Unsigned8") \o <<"ENUMERATED", "{", "a", "(", "0", ")", "}">>
            \o Header("Null") \o <<"[", "APPLICATION", "0", "]", "Null">>}

RECURSIVE SimpleItems(_, _)
\* n items "name (number)", the numbers descending, joined by the tokens of joint
SimpleItems(n, joint) ==
    IF n = 0 THEN <<>>
    ELSE <<Ch(LowerLetters, n), "(", Ch(Digits, n), ")">>
         \o (IF n > 1 THEN joint ELSE <<>>) \o SimpleItems(n - 1, joint)

Trailers == {<<>>, <<",">>, <<",", "...">>, <<"...">>}

SimpleCases ==
    {Header("Foo") \o <<"ENUMERATED", "{">> \o SimpleItems(n, j) \o t \o <<"}">> :
        n \in 0..MaxItems, j \in {<<",">>, <<>>}, t \in Trailers}
    \cup {Header("Foo") \o <<"BIT", "STRING", "{">> \o SimpleItems(MaxItems, <<",">>)
            \o t \o <<"}">> : t \in Trailers}

NoItemsCases ==
    {Header("Foo") \o t \o <<"{", "a", "(", "0", ")", "}">> :
        t \in {<<"Unsigned">>, <<"OCTET", "STRING">>, <<"ABSTRACT-SYNTAX.&Type">>,
               <<"Real", "(", "0", "..", "1", ")">>, <<"SEQUENCE", "OF", "Foo">>}}

ItemTypes ==
    {<<"Unsigned">>, <<"Unsigned", "OPTIONAL">>,
     <<"Unsigned", "(", "1", "..", "0", ")">>,
     <<"ENUMERATED", "{", "x", "(", "0", ")", ",", "...", "}">>,
     <<"SEQUENCE", "SIZE", "(", "0", ")", "OF", "Real">>,
     <<"SEQUENCE", "{", "x", "Real", ",", "...", "}">>,
     <<"Real", "{", "x", "}">>}

RECURSIVE ComplexItems(_, _)
\* n items "name [tag] Type", the last of type last and the others Unsigned
ComplexItems(n, last) ==
    IF n = 0 THEN <<>>
    ELSE (IF n > 1 THEN ComplexItems(n - 1, <<"Unsigned">>) \o <<",">> ELSE <<>>)
         \o <<Ch(LowerLetters, n), "[" \o Ch(Digits, n) \o "]">> \o last

ComplexCases ==
    {Header("Foo") \o <<k, "{">> \o ComplexItems(1, it) \o <<"}">> :
        k \in {"CHOICE", "SEQUENCE"}, it \in ItemTypes}
    \cup {Header("Foo") \o <<k, "{">> \o ComplexItems(n, <<"Unsigned">>) \o t \o <<"}">> :
        k \in {"CHOICE", "SEQUENCE"}, n \in 1..MaxItems,
        t \in {<<",">>, <<",", "...">>}}

OtherCases ==
    {<<>>, <<"foo", "::=", "Unsigned">>, <<"Foo", "Unsigned">>, <<"Foo", "::=", "real">>,
     Header("BACnetFoo-Bar") \o <<"[", "APPLICATION", "12", "]", "SEQUENCE", "OF", "Unsigned8">>,
     Header("Foo") \o <<"CHOICE", "{", "a", "Real", "b", "Real", "}">>}

Cases == RangeCases \cup SizeCases \cup SeveralCases \cup SimpleCases
         \cup NoItemsCases \cup ComplexCases \cup OtherCases

\* statements on the names of definitions and items
NameTexts ==
    {"Foo-Bar2 ::= SEQUENCE { a-1b [0] Real, c2 Foo-Bar2 }",
     "Foo-bar ::= Real", "Foo- ::= Real", "F--B ::= Real", "2Foo ::= Real",
     "Foo ::= ENUMERATED { a-b-2 (0), aB (1) }",
     "Foo ::= CHOICE { a- [0] Real }", "Foo ::= CHOICE { A [0] Real }"}

\* enumerations and bit strings whose items are not in ascending order
OrderTexts ==
    {"Foo ::= ENUMERATED { b(1), a(0), c(1) }",
     "Foo ::= BIT STRING { c(2), a(0), b(1) }",
     "Foo ::= CHOICE { a [0] ENUMERATED { y(1), x(0) } }"}

\* structures whose items do not have ascending tags
TagOrderTexts ==
    {"Foo ::= SEQUENCE { b [1] Real, a [0] Unsigned OPTIONAL, c Real }",
     "Foo ::= SEQUENCE { c [2] Real (0..1), b [1] Real OPTIONAL, a [0] Real }",
     "Foo ::= CHOICE { b [2] Real, a [0] CHOICE { z [1] Real, y [0] Real } }"}

\* structures with tags at and beyond the end of the range of context tags
TagRangeTexts ==
    {"Foo ::= CHOICE { a [300] Unsigned }",
     "Foo ::= SEQUENCE { a [255] Real, b [254] Real OPTIONAL, c Real }"}

\* numbers and strings with and without constraints and SEQUENCE OF
ScalarTexts ==
    {"Foo ::= SEQUENCE OF Unsigned", "Foo ::= SEQUENCE SIZE(2) OF Real (1..1)",
     "Foo ::= SEQUENCE SIZE(0) OF Integer", "Foo ::= Double (MIN..MAX)",
     "Foo ::= Integer (-1..-1)", "Foo ::= Unsigned (SIZE(1))",
     "Foo ::= CharacterString", "Foo ::= CharacterString SIZE(1..MAX)",
     "Foo ::= SEQUENCE OF OCTET STRING", "Foo ::= OCTET STRING (0..1)",
     "Foo ::= SEQUENCE OF OCTET STRING SIZE(2)",
     "Foo ::= CHOICE { a [0] SEQUENCE OF Double, b [1] Integer (2), c Real (0..1.5) }",
     "Foo ::= SEQUENCE { a [0] CharacterString (SIZE(1..2)), b OCTET STRING (SIZE(3)), "
        \o "c [2] SEQUENCE OF CharacterString, d CharacterString }"}

\* the standard comment of an extensible enumeration, for four numerals
Sentence(q) ==
    "Enumerated values " \o q[1] \o "-" \o q[2]
    \o " are reserved for definition by ASHRAE. Enumerated values "
    \o q[3] \o "-" \o q[4] \o " may be used by others"

\* extensible and other definitions with and without the standard comment,
\* and definitions with the well-known names
ExtensibleTexts ==
    {"Foo ::= ENUMERATED { a(0), ... }",
     "Foo ::= ENUMERATED { a(0), ... } -- " \o Sentence(<<"0", "255", "256", "65535">>),
     "Foo ::= ENUMERATED { b(1), a(0), ... }\n-- Enumerated values 1-255 are reserved for"
        \o " definition by ASHRAE.\n--  Enumerated values\t256-65535 may be used by"
        \o " others subject to",
     "Foo ::= ENUMERATED { a(0), ... } -- Enumerated values 0-255 are reserved",
     "Foo ::= ENUMERATED { a(0), ... } -- The " \o Sentence(<<"0", "255", "256", "65535">>),
     "Foo ::= ENUMERATED { a(0) } -- " \o Sentence(<<"0", "255", "256", "65535">>),
     "Foo ::= BIT STRING { a(0), ... } -- " \o Sentence(<<"0", "255", "256", "65535">>),
     "Foo ::= SEQUENCE { a [0] ENUMERATED { x(0), ... } -- "
        \o Sentence(<<"0", "1", "1", "255">>) \o "\n, b ENUMERATED { y(0) } }",
     "BACnetEngineeringUnits ::= ENUMERATED { a(0) }",
     "BACnetEngineeringUnits ::= ENUMERATED",
     "BACnetPropertyIdentifier ::= ENUMERATED { a(0), ... } -- "
        \o Sentence(<<"0", "255", "256", "65535">>),
     "BACnetAuditOperationFlags ::= BIT STRING { a(0), b(1) }",
     "BACnetObjectTypesSupported ::= BIT STRING { a(0) }",
     "BACnetServicesSupported ::= BIT STRING { a(0) }"}

\* structures with items declared OPTIONAL
OptionalTexts ==
    {"Item ::= SEQUENCE { a [0] Unsigned OPTIONAL, b [1] Integer }",
     "Item ::= CHOICE { a [0] Unsigned OPTIONAL, b [1] Integer }",
     "Item ::= SEQUENCE { a SEQUENCE { x Real OPTIONAL } OPTIONAL, b CHOICE { y Real } }"}

\* item lists with the comment "one" between the comma that ends the first
\* item and the name of the second, and one with a comment before the comma
CommentTexts ==
    {"Foo ::= ENUMERATED { a(0), -- one\n b(1) }",
     "Foo ::= CHOICE { a Real, -- one\n b Real }",
     "Foo ::= SEQUENCE { a [0] Real OPTIONAL, --one\n b [1] Real }"}

CommentBeforeCommaText == "Foo ::= ENUMERATED { a(0) -- zero\n, b(1) -- last\n}"

\* repeated types with an item list, with a constraint and with the count 0
SeriesTexts ==
    {"Foo ::= SEQUENCE OF ENUMERATED { a(0), b(1) }",
     "Foo ::= SEQUENCE SIZE(2) OF SEQUENCE { a Real }",
     "Foo ::= SEQUENCE { a SEQUENCE OF CHOICE { x Real }, b SEQUENCE SIZE(3) OF Real }",
     "Foo ::= SEQUENCE SIZE(2) OF Unsigned (1..2)",
     "Foo ::= SEQUENCE SIZE(0) OF Real",
     "Foo ::= SEQUENCE OF OCTET STRING SIZE(4)"}

\* type expressions that begin with one of the reserved words, with part
\* of one, with an identifier or with neither
BaseTypeTexts ==
    {"Foo ::= ABSTRACT-SYNTAX.&Type", "Foo ::= ABSTRACT-SYNTAX", "Foo ::= ENUMERATED",
     "Foo ::= ENUMERATEDFoo", "Foo ::= Enumerated", "Foo ::= BIT STRING",
     "Foo ::= BIT\t\n STRING", "Foo ::= BIT", "Foo ::= BIT-STRING", "Foo ::= OCTET STRING",
     "Foo ::= OCTET STRINGS", "Foo ::= OCTET", "Foo ::= SEQUENCE OF BIT STRING",
     "Foo ::= SEQUENCE OF ENUMERATED { a(0) }", "Foo ::= enumerated", "Foo ::= (1..2)",
     "Foo ::= CHOICE { a ENUMERATED { x(1) }, b OCTET STRING, c STRING }",
     "Foo ::= SEQUENCE { a [1] ABSTRACT-SYNTAX.&Type, b [2] 9 }"}

\* item lists that are empty, begin with the marker, end with a comma or
\* go on after the marker, and lists that are well formed
ItemListTexts ==
    {"Foo ::= ENUMERATED {}", "Foo ::= CHOICE { }", "Foo ::= SEQUENCE { --c\n }",
     "Foo ::= ENUMERATED { ... }", "Foo ::= ENUMERATED { a(0), }",
     "Foo ::= CHOICE { a Real, }", "Foo ::= SEQUENCE { a Real, }",
     "Foo ::= SEQUENCE { a Real, ... }", "Foo ::= CHOICE { a Real, ... }",
     "Foo ::= ENUMERATED { a(0), ..., b(1) }", "Foo ::= ENUMERATED { a(0), ... , }",
     "Foo ::= ENUMERATED { a(0),", "Foo ::= ENUMERATED {", "Foo ::= BIT STRING { a(0) b(1) }",
     "Foo ::= SEQUENCE { a SEQUENCE {}, b Real }", "Foo ::= BIT STRING { a(0), b(1), ... }"}

\* further inputs, written out in full
Texts == {CommentBeforeCommaText} \cup NameTexts \cup OrderTexts \cup TagOrderTexts \cup TagRangeTexts \cup ScalarTexts
         \cup ExtensibleTexts \cup OptionalTexts \cup CommentTexts \cup SeriesTexts
         \cup BaseTypeTexts \cup ItemListTexts

\* the inputs, each as written and with every line break written "\n"
Inputs ==
    UNION {{[raw |-> Build(tokens, 0, g, sep.raw), lf |-> Build(tokens, 0, g, sep.lf)] :
                g \in 0..Len(tokens)} : tokens \in Cases, sep \in Separators}
    \cup {[raw |-> t, lf |-> t] : t \in Texts}

\* ------------------------------------------------------------------------
\* Specification
\* ------------------------------------------------------------------------
Init ==
    /\ input = ""
    /\ canon = ""
    /\ content = ""
    /\ text = ""
    /\ currentIndex = 0
    /\ lastComment = ""
    /\ lastMatch = [start |-> 0, end |-> 0]
    /\ stack = <<>>
    /\ definitions = <<>>
    /\ pc = "start"
    /\ error = NoError
    /\ normalized = <<>>
    /\ firstCall = <<>>

\* parse is called with one of the inputs
Start ==
    /\ pc = "start"
    /\ \E in \in Inputs : Parse(in.raw, in.lf)
    /\ UNCHANGED <<normalized, firstCall>>

\* parse has returned or thrown, and the caller calls it once more with the
\* same text, keeping how the first call ended
ParseAgain ==
    /\ pc \in {"done", "error"}
    /\ firstCall = <<>>
    /\ firstCall' = <<[pc |-> pc, definitions |-> definitions, error |-> error]>>
    /\ normalized' = <<>>
    /\ Parse(input, canon)

\* a step of parse, once called
ParseStep ==
    \/ ParseDefinition
    \/ ParseType
    \/ ParseSize
    \/ ParseRange
    \/ ParseItems
    \/ ParseItem
    \/ Return
    \/ EndItem
    \/ CloseItems

Next ==
    \/ Start
    \/ ParseStep
    \/ Normalize

Spec == Init /\ [][Next]_vars

NextTwice ==
    \/ Next
    \/ ParseAgain

\* the behaviours in which parse may be called a second time
TwiceSpec == Init /\ [][NextTwice]_vars

\* parse is synchronous: once called, it runs on while it has a step to take
FairSpec == Spec /\ WF_vars(ParseStep)

TypeOK ==
    /\ pc \in {"start", "top", "type", "size", "range", "items", "loop", "ret",
               "itemEnd", "close", "done", "error"}
    /\ currentIndex \in 0..Len(content)
    /\ (pc = "error") = (error.kind # "none")

\* ------------------------------------------------------------------------
\* Properties
\* ------------------------------------------------------------------------
RECURSIVE Tree(_)
\* a node and the items below it, at every depth
Tree(node) ==
    {node} \cup (IF node.items = <<>> THEN {}
                 ELSE UNION {Tree(node.items[1][i]) : i \in 1..Len(node.items[1])})

\* every node parse holds: in the definitions and under construction
Nodes == UNION ({Tree(definitions[i]) : i \in 1..Len(definitions)}
                \cup {Tree(stack[i]) : i \in 1..Len(stack)})

Returned == pc = "done"

Raised == pc = "error"

Newlines(s, n) == Cardinality({i \in 1..n : Ch(s, i) = "\n"})

Contains(s, lit) == \E k \in 1..Len(s) : At(s, k, lit)

\* the text left once the whitespace and comments at the head of s are skipped
Skipped(s) == Drop(s, SkipEnd(s, 1) - 1)

\* C1: normalize returns the registry record whenever the registry has the
\* definition's name, whatever the definition holds, and the fresh
\* normalization only when the registry has no entry for the name
C1_RegistryWins ==
    \A i \in 1..Len(normalized) :
        LET d    == definitions[i]
            hits == {k \in DOMAIN PredefinedFiles :
                        PredefinedFiles[k].alias = <<d.name>> \/ PredefinedFiles[k].name = d.name}
        IN  /\ hits # {} => \E k \in hits : normalized[i] = PredefinedFiles[k]
            /\ hits = {} => /\ normalized[i] = NormalizeDefinition(d, 0).def[1]
                            /\ normalized[i].name = ToBaclibName(d.name, <<"">>)

C1_Witness ==
    /\ Len(normalized) = 2
    /\ definitions[1].name = "Unsigned8" /\ definitions[1].items # <<>>
    /\ normalized[1].type.obj[1].base = "unsigned"
    /\ definitions[2].name = "Null"

C1_WitnessFresh ==
    /\ Len(normalized) = 2
    /\ definitions[1].name = "Foo" /\ normalized[1].name = "foo"
    /\ definitions[2].name = "Unsigned8" /\ definitions[2].type = "Real"

\* the bounds of a constraint are in order
Ordered(c) == c = <<>> \/ ~NumGT(c[1].min, c[1].max)

\* the constraint parseRangeConstraint is about to read, when the bounds it
\* resolves to are out of order
BadConstraintAhead ==
    LET ms == SizePattern(text)
        t  == IF pc = "size" /\ ms.len > 0 THEN Skipped(Drop(text, ms.len))
              ELSE IF pc = "range" THEN text
              ELSE ""
        m  == RangePattern(t)
        lo == IF m.g1 = "MIN" THEN NegInf ELSE ParseFloat(m.g1)
        hi == IF ~m.has2 THEN lo ELSE IF m.g2 = "MAX" THEN PosInf ELSE ParseFloat(m.g2)
    IN  m.len > 0 /\ NumGT(lo, hi)

\* C2: every range and size parse holds, at every depth, has min <= max, and
\* a constraint whose low bound exceeds its high bound makes parse raise a
\* range error
C2_BoundsOrdered ==
    /\ [](\A n \in Nodes : Ordered(n.range) /\ Ordered(n.size))
    /\ [][BadConstraintAhead => (pc' = "error" /\ error'.kind = "range")]_vars

C2_Witness ==
    /\ Raised /\ error.kind = "range"
    /\ Len(stack) = 2 /\ stack[2].type = "Unsigned"
    /\ NumGT(error.min, error.max)

\* C3: a range error carries the offset where the constraint began, and the
\* line of that offset
C3_ErrorAtConstraintStart ==
    (Raised /\ error.kind = "range")
        => /\ error.index = lastMatch.start
           /\ error.line = 1 + Newlines(content, lastMatch.start)

\* the failing attempt is the closing brace, an item name standing where the
\* comma should be
MissingComma ==
    /\ Raised /\ error.kind = "syntax" /\ error.pattern = "}"
    /\ stack # <<>> /\ Top.items # <<>> /\ Len(Top.items[1]) >= 1
    /\ ItemNamePattern(text).len > 0

\* C4 as stated: with a comma missing between two items the syntax error is
\* at the offset immediately after the first item
C4_ErrorRightAfterItem == MissingComma => error.index = lastMatch.end

\* C4 amended: a failed required match raises at the cursor's offset before
\* the attempt, which is the offset of the first character after the last
\* match that is neither whitespace nor comment; with a comma missing it is
\* the offset of the next item's name
C4_ErrorAtNextToken ==
    (Raised /\ error.kind = "syntax")
        => /\ error.index = Len(content) - Len(text)
           /\ text = Drop(content, error.index)
           /\ error.index = lastMatch.end + SkipEnd(Drop(content, lastMatch.end), 1) - 1
           /\ MissingComma => ItemNamePattern(Drop(content, error.index)).len > 0

C4_Witness == MissingComma /\ error.index > lastMatch.end /\ Len(Top.items[1]) = 1

\* C5: the line of a ParserError raised at offset i is 1 plus the number of
\* newlines before i in the normalized content; it is at least 1 and at most
\* the number of lines of the input
C5_ErrorLine ==
    Raised => /\ error.line = 1 + Newlines(content, error.index)
              /\ error.line >= 1
              /\ error.line <= 1 + Newlines(canon, Len(canon))

C5_Witness == Raised /\ error.kind = "syntax" /\ error.line = 4 /\ error.index < Len(content)

\* C6: parse works on the same content whatever the style of the line breaks
\* of its input, and on nothing else of the input
C6_LineEndings == pc # "start" => content = canon

C6_Witness ==
    /\ Raised /\ error.kind = "range" /\ error.line = 3
    /\ input # canon /\ Contains(input, "\r\n")

\* positions of the characters of s outside tab, newline and printable ASCII
InvalidPositions(s) == {i \in 1..Len(s) : Ch(s, i) \notin ValidChar}

\* C7: a character outside tab, newline and printable ASCII makes parse raise
\* an invalid-characters error at the first such character, before anything
\* is parsed; the error is raised for no other input
C7_InvalidCharacters ==
    pc # "start" =>
        /\ InvalidPositions(canon) # {} =>
             /\ Raised /\ error.kind = "invalid"
             /\ \A i \in InvalidPositions(canon) : error.index + 1 <= i
             /\ error.index + 1 \in InvalidPositions(canon)
             /\ definitions = <<>> /\ stack = <<>>
        /\ (Raised /\ error.kind = "invalid") => InvalidPositions(canon) # {}

C7_Witness ==
    /\ Raised /\ error.kind = "invalid"
    /\ At(canon, error.index - 1, "--")
    /\ \E k \in 1..error.index : At(canon, k, "( 1 .. 0 )")

\* every turn of the two loops and every descent into parseType takes at
\* least one character, or ends the construct or the parse
Progress ==
    /\ (pc = "top" /\ pc' \notin {"done", "error"}) => Len(text') < Len(text)
    /\ (pc = "loop" /\ pc' \notin {"close", "error"}) => Len(text') < Len(text)
    /\ (pc = "type" /\ pc' # "error") => Len(text') < Len(text)
    /\ Len(text') <= Len(text) \/ pc = "start"

\* the outcome of parse, once reached, stays
Final == (Returned \/ Raised) => (pc' = pc /\ definitions' = definitions /\ error' = error)

\* C8: parse terminates, with the list of definitions or with a ParserError
\* and not both, and each turn of its loops and each descent consumes input
C8_Terminates ==
    /\ (pc # "start") ~> (Returned \/ Raised)
    /\ [](~(Returned /\ Raised) /\ (Returned => error = NoError /\ stack = <<>>))
    /\ [][Progress /\ Final]_vars

C8_Witness ==
    /\ Returned /\ Len(definitions) = 1
    /\ \E n \in Tree(definitions[1]) : n # definitions[1] /\ n.items # <<>>
    /\ Len(normalized) = 1

\* C9: a node has items only if its type is Enumerated, BitString, CHOICE or
\* SEQUENCE, and an opening brace after any other type raises the
\* cannot-have-items error
C9_ItemsOnlyOnStructured ==
    /\ [](\A n \in Nodes :
            n.items # <<>> => n.type \in {"Enumerated", "BitString", "CHOICE", "SEQUENCE"})
    /\ [][(/\ pc = "items" /\ StartsWith(text, "{")
           /\ Top.type \notin {"Enumerated", "BitString", "CHOICE", "SEQUENCE"})
          => (pc' = "error" /\ error'.kind = "items" /\ error'.type = Top.type)]_vars

C9_Witness == Raised /\ error.kind = "items" /\ error.type = "OctetString"

\* a comma and then the extensibility marker stand at the head of the text
MarkerAhead == StartsWith(text, ",") /\ StartsWith(Skipped(Drop(text, 1)), "...")

\* C10: extensible is set exactly when an item is followed by a comma and
\* the marker in a list of type Enumerated, BitString or CHOICE; the marker
\* ends the list; in a SEQUENCE, and at the head of a list, the marker is a
\* syntax error
C10_Extensible ==
    /\ [](\A n \in Nodes :
            n.extensible => (n.type \in {"Enumerated", "BitString", "CHOICE"}
                             /\ n.items # <<>> /\ Len(n.items[1]) >= 1))
    /\ [][pc = "itemEnd" =>
            LET parent == stack[Len(stack) - 1]
                after  == stack'[Len(stack')]
            IN  /\ after.extensible
                     = (MarkerAhead /\ parent.type \in {"Enumerated", "BitString", "CHOICE"})
                /\ after.extensible => pc' = "close"]_vars
    /\ [][(pc = "loop" /\ StartsWith(Skipped(text), "..."))
             => (pc' = "error" /\ error'.kind = "syntax")]_vars
    /\ [][(pc = "close" /\ Top.extensible /\ ~StartsWith(text, "}"))
             => (pc' = "error" /\ error'.kind = "syntax")]_vars

C10_Witness ==
    /\ Returned /\ Len(definitions) = 1
    /\ definitions[1].type = "CHOICE" /\ definitions[1].extensible
    /\ Len(definitions[1].items[1]) = MaxItems

C10_WitnessSequence ==
    /\ Raised /\ error.kind = "syntax" /\ error.pattern = "name"
    /\ Top.type = "SEQUENCE" /\ StartsWith(text, "...") /\ Len(Top.items[1]) >= 1

\* s is [A-Z][0-9A-Za-z]*(-[A-Z][0-9A-Za-z]*)* from its first to its last
\* character
UpperIdentifier(s) ==
    /\ s # ""
    /\ Ch(s, Len(s)) # "-"
    /\ \A i \in 1..Len(s) :
          /\ Ch(s, i) \in Alnum \cup {"-"}
          /\ (i = 1 \/ Ch(s, i - 1) = "-") => Ch(s, i) \in Upper

\* s is [a-z][0-9a-z]*(-[0-9a-z]+)* from its first to its last character
LowerIdentifier(s) ==
    /\ s # ""
    /\ Ch(s, 1) \in Lower
    /\ Ch(s, Len(s)) # "-"
    /\ \A i \in 1..Len(s) :
          /\ Ch(s, i) \in LowerNum \cup {"-"}
          /\ (i > 1 /\ Ch(s, i - 1) = "-") => Ch(s, i) \in LowerNum

\* s starts with an uppercase-leading name, optional whitespace and ::=
HeaderAhead(s) ==
    \E e \in 1..Len(s) :
        /\ UpperIdentifier(Take(s, e))
        /\ At(s, WsEnd(s, e + 1), "::=")

\* the top-level nodes, finished or under construction, and the nodes
\* below them
TopNodes == {definitions[i] : i \in 1..Len(definitions)}
            \cup (IF stack = <<>> THEN {} ELSE {stack[1]})

ItemNodes == (Nodes \ TopNodes)
             \cup UNION {Tree(n) \ {n} : n \in TopNodes}

\* C11: the name of every top-level definition is an uppercase-leading
\* identifier in full and the name of every nested item a lowercase-leading
\* identifier in full; a statement whose header has a lowercase-leading name
\* or no ::= makes parse raise a ParserError
C11_Names ==
    /\ [](/\ \A d \in TopNodes : UpperIdentifier(d.name)
          /\ \A n \in ItemNodes : LowerIdentifier(n.name))
    /\ [][(pc = "top" /\ Skipped(text) # "")
            => IF HeaderAhead(Skipped(text))
               THEN pc' = "type" /\ error' = NoError
               ELSE /\ pc' = "error" /\ error'.kind = "syntax"
                    /\ definitions' = definitions]_vars

C11_Witness ==
    /\ Raised /\ error.kind = "syntax" /\ error.pattern = "header"
    /\ Ch(text, 1) \in Lower /\ Contains(text, "::=")

C11_WitnessTree ==
    /\ Returned /\ Len(definitions) = 1
    /\ Contains(definitions[1].name, "-")
    /\ \E n \in ItemNodes : Contains(n.name, "-")

\* the type of what normalizeDefinition returned: the type of the definition
\* it returned, or the reference it returned in place of one
TypeOf(t) == IF t.def # <<>> THEN t.def[1].type ELSE t

\* its traits, if it has any
TraitsOf(t) == IF TypeOf(t).obj = <<>> THEN NoTraits ELSE TypeOf(t).obj[1].traits

RECURSIVE Pairs(_, _)
\* a raw node d with what normalizeDefinition returned for it, and the same
\* for the items below d, item k of d taken with entry k of the list
Pairs(d, t) ==
    {<<d, t>>}
    \cup (IF d.type \in ComplexTypes /\ Len(TraitsOf(t).list) = Len(RawItems(d))
          THEN UNION {Pairs(RawItems(d)[k], TraitsOf(t).list[k].type) :
                      k \in 1..Len(RawItems(d))}
          ELSE {})

\* the raw definitions normalized so far that the registry does not hold,
\* each with its normalization, at every depth
Normalizations ==
    UNION {Pairs(definitions[i], TypeDef(normalized[i])) :
             i \in {j \in 1..Len(normalized) :
                      definitions[j].name \notin DOMAIN predefinedTypes}}

\* C12: the values of a normalized enumeration and the bits of a normalized
\* bit string are the raw items, each once with its name and number, in
\* ascending order of the number, whatever their order in the source
C12_SortedByNumber ==
    \A pr \in Normalizations :
        LET d     == pr[1]
            items == RawItems(d)
            list  == TraitsOf(pr[2]).list
        IN  (d.type \in SimpleTypes /\ Len(items) > 0) =>
              /\ TraitsOf(pr[2]).listName
                    = (IF d.type = "Enumerated" THEN "values" ELSE "bits")
              /\ Len(list) = Len(items)
              /\ \A k \in 1..Len(list) :
                    /\ list[k].numberName
                          = (IF d.type = "Enumerated" THEN "constant" ELSE "position")
                    /\ Cardinality({j \in 1..Len(list) :
                                      /\ list[j].name = list[k].name
                                      /\ list[j].number = list[k].number})
                        = Cardinality({j \in 1..Len(items) :
                                        /\ items[j].name = list[k].name
                                        /\ items[j].number = list[k].number})
              /\ \A k \in 1..(Len(list) - 1) : list[k].number[1] <= list[k + 1].number[1]

C12_Witness ==
    /\ Len(normalized) = 1
    /\ \E pr \in Normalizations :
          /\ pr[1].type = "Enumerated" /\ Len(RawItems(pr[1])) >= 2
          /\ RawItems(pr[1])[1].number[1] > RawItems(pr[1])[2].number[1]
          /\ TraitsOf(pr[2]).list[1].name = RawItems(pr[1])[2].name

\* C13: the fields of a normalized SEQUENCE and the options of a normalized
\* CHOICE are as many as the raw items and stand in the order of the raw
\* items, whatever the tags of the items
C13_OrderPreserved ==
    \A pr \in Normalizations :
        LET d     == pr[1]
            items == RawItems(d)
            list  == TraitsOf(pr[2]).list
        IN  (d.type \in ComplexTypes /\ Len(items) > 0) =>
              /\ TraitsOf(pr[2]).listName
                    = (IF d.type = "CHOICE" THEN "options" ELSE "fields")
              /\ Len(list) = Len(items)
              /\ \A k \in 1..Len(list) :
                    /\ list[k].name = items[k].name
                    /\ (list[k].optional # <<>>) = (d.type = "SEQUENCE" /\ items[k].optional)
                    /\ list[k].type.def # <<>> => list[k].type.def[1].name = items[k].name

C13_Witness ==
    /\ Len(normalized) = 1
    /\ \E pr \in Normalizations :
          /\ pr[1].type = "SEQUENCE" /\ Len(RawItems(pr[1])) = 3
          /\ \A k \in 1..3 : RawItems(pr[1])[k].number # <<>>
          /\ \A k \in 1..2 : RawItems(pr[1])[k].number[1] > RawItems(pr[1])[k + 1].number[1]
          /\ TraitsOf(pr[2]).list[1].name = "c"

\* the names enhanceKnownTypes has a case for
KnownNames ==
    {"BACnetEngineeringUnits", "BACnetPropertyIdentifier", "BACnetAuditOperationFlags",
     "BACnetObjectTypesSupported", "BACnetServicesSupported"}

\* the lowest number among items
MinNumber(items) ==
    CHOOSE n \in {items[k].number[1] : k \in 1..Len(items)} :
        \A k \in 1..Len(items) : n <= items[k].number[1]

\* C14: a normalized enumeration or bit string with items, its name not
\* among the special cases, carries the extent of its items: an enumeration
\* the minimum of its numbers and the maximum plus one, a bit string the
\* length of its highest position plus one
C14_ComputedExtent ==
    \A pr \in Normalizations :
        LET d      == pr[1]
            items  == RawItems(d)
            traits == TraitsOf(pr[2])
        IN  (d.type \in SimpleTypes /\ Len(items) > 0 /\ d.name \notin KnownNames) =>
              IF d.type = "Enumerated"
              THEN /\ traits.minimum = <<Num(MinNumber(items))>>
                   /\ traits.maximum = <<Num(MaxNumber(items) + 1)>>
              ELSE traits.length = <<StringLength(Num(MaxNumber(items) + 1),
                                                  Num(MaxNumber(items) + 1))>>

\* C15: an option or a field has a context only when the tag of its raw
\* item is an integer from 0 to 254, and the context is then that tag
C15_ContextInRange ==
    \A pr \in Normalizations :
        LET d     == pr[1]
            items == RawItems(d)
            list  == TraitsOf(pr[2]).list
        IN  (d.type \in ComplexTypes /\ Len(items) > 0) =>
              \A k \in 1..Len(list) :
                  list[k].context # <<>> =>
                      /\ items[k].number # <<>>
                      /\ items[k].number[1] \in 0..254
                      /\ list[k].context = items[k].number

\* the base names of the numeric and the string types
BaseName ==
    [Unsigned |-> "unsigned", Integer |-> "integer", Real |-> "real", Double |-> "double",
     OctetString |-> "octet-string", CharacterString |-> "character-string"]

\* what normalizeDefinition returned is a reference to the type named base
\* and nothing more
Opaque(t, base) == TypeOf(t) = TypeRef(base)

\* it is an object of the type named base
Structured(t, base) ==
    /\ t.def # <<>> /\ TypeOf(t).obj # <<>> /\ TypeOf(t).ref = ""
    /\ TypeOf(t).obj[1].base = base

\* definition.series is truthy: true or a count other than 0
HasSeries(d) == d.series # <<>> /\ ~(d.series[1].of = "count" /\ d.series[1].n = 0)

\* C16 as stated: a numeric definition without a range normalizes to an
\* opaque type reference, and one with a range to an object whose minimum
\* and maximum are the min and max of the range
C16_NumericRange ==
    \A pr \in Normalizations :
        LET d == pr[1]
            t == pr[2]
        IN  d.type \in NumericTypes =>
              IF d.range = <<>> THEN Opaque(t, BaseName[d.type])
              ELSE /\ Structured(t, BaseName[d.type])
                   /\ TraitsOf(t).minimum = <<d.range[1].min>>
                   /\ TraitsOf(t).maximum = <<d.range[1].max>>

\* C16 amended: a numeric definition without a range and without a series
\* normalizes to an opaque type reference; one with a series and no range
\* to an object that holds the series and no minimum or maximum; one with a
\* range to an object whose minimum and maximum are the min and max of the
\* range, the infinities of MIN and MAX included
C16_NumericRangeOrSeries ==
    \A pr \in Normalizations :
        LET d == pr[1]
            t == pr[2]
        IN  d.type \in NumericTypes =>
              /\ (d.range = <<>> /\ ~HasSeries(d)) => Opaque(t, BaseName[d.type])
              /\ (d.range = <<>> /\ HasSeries(d)) =>
                    /\ Structured(t, BaseName[d.type])
                    /\ TraitsOf(t) = [NoTraits EXCEPT !.series = d.series]
              /\ d.range # <<>> =>
                    /\ Structured(t, BaseName[d.type])
                    /\ TraitsOf(t).minimum = <<d.range[1].min>>
                    /\ TraitsOf(t).maximum = <<d.range[1].max>>
                    /\ TraitsOf(t).series = (IF HasSeries(d) THEN d.series ELSE <<>>)

C16_Witness ==
    /\ Len(normalized) = 1
    /\ \E pr \in Normalizations :
          /\ pr[1].type \in NumericTypes /\ pr[1].range # <<>>
          /\ pr[1].range[1].min = NegInf /\ pr[1].range[1].max = PosInf
          /\ TraitsOf(pr[2]).maximum = <<PosInf>>

C16_WitnessSeries ==
    /\ Len(normalized) = 1
    /\ \E pr \in Normalizations :
          /\ pr[1].type \in NumericTypes /\ pr[1].range = <<>> /\ HasSeries(pr[1])

C18_StringLength ==
    \A pr \in Normalizations :
        LET d == pr[1]
            t == pr[2]
        IN  d.type \in StringTypes =>
              IF d.size = <<>> THEN Opaque(t, BaseName[d.type])
              ELSE /\ Structured(t, BaseName[d.type])
                   /\ TraitsOf(t).length # <<>>
                   /\ TraitsOf(t).length[1].one = (d.size[1].min = d.size[1].max)
                   /\ TraitsOf(t).length[1].minimum = d.size[1].min
                   /\ TraitsOf(t).length[1].maximum = d.size[1].max

\* C18 amended: a string definition without a size and without a series
\* normalizes to an opaque type reference, one with a series and no size to
\* an object that holds the series and no length, and one with a size to an
\* object whose length is the one number of the size when min = max and the
\* pair when min < max
C18_StringLengthOrSeries ==
    \A pr \in Normalizations :
        LET d == pr[1]
            t == pr[2]
        IN  d.type \in StringTypes =>
              /\ (d.size = <<>> /\ ~HasSeries(d)) => Opaque(t, BaseName[d.type])
              /\ (d.size = <<>> /\ HasSeries(d)) =>
                    /\ Structured(t, BaseName[d.type])
                    /\ TraitsOf(t) = [NoTraits EXCEPT !.series = d.series]
              /\ d.size # <<>> =>
                    /\ Structured(t, BaseName[d.type])
                    /\ TraitsOf(t).length # <<>>
                    /\ TraitsOf(t).length[1].one = ~NumGT(d.size[1].max, d.size[1].min)
                    /\ TraitsOf(t).length[1].minimum = d.size[1].min
                    /\ TraitsOf(t).length[1].maximum = d.size[1].max
                    /\ TraitsOf(t).minimum = <<>> /\ TraitsOf(t).maximum = <<>>

C18_Witness ==
    /\ Len(normalized) = 1
    /\ \E pr \in Normalizations :
          /\ pr[1].type = "CharacterString" /\ pr[1].size # <<>>
          /\ NumGT(pr[1].size[1].max, pr[1].size[1].min)
          /\ ~TraitsOf(pr[2]).length[1].one
    /\ \E pr \in Normalizations :
          /\ pr[1].type = "OctetString" /\ pr[1].size # <<>>
          /\ TraitsOf(pr[2]).length[1].one

\* numerals the standard comment is written with
Numerals == {"0", "1", "255", "256", "65535"}

\* the quadruples of numerals whose sentence the comment starts with, once
\* each run of whitespace of the comment is one blank
SentencesOf(comment) ==
    {q \in Numerals \X Numerals \X Numerals \X Numerals :
        StartsWith(Squeeze(comment), Sentence(q))}

\* C19: an extensible enumeration whose name is not a well-known one has
\* the proprietary span {from: 1, to: 0} when its comment is absent or is
\* not the standard sentence, and the second pair of numbers of the
\* sentence when it is
C19_Proprietary ==
    \A pr \in Normalizations :
        LET d == pr[1]
            t == pr[2]
        IN  (d.type = "Enumerated" /\ d.extensible /\ d.name \notin KnownNames) =>
              IF SentencesOf(d.comment) = {}
              THEN TraitsOf(t).proprietary = <<Span(1, 0)>>
              ELSE \E q \in SentencesOf(d.comment) :
                      TraitsOf(t).proprietary = <<Span(ParseInt(q[3]), ParseInt(q[4]))>>

C19_Witness ==
    /\ Len(normalized) = 1
    /\ \E pr \in Normalizations :
          /\ pr[1].type = "Enumerated" /\ pr[1].extensible
          /\ Contains(pr[1].comment, "\n")
          /\ TraitsOf(pr[2]).proprietary = <<Span(256, 65535)>>

C19_WitnessPlaceholder ==
    /\ Len(normalized) = 1
    /\ \E pr \in Normalizations :
          /\ pr[1].type = "Enumerated" /\ pr[1].extensible
          /\ Contains(pr[1].comment, "may be used by others")
          /\ TraitsOf(pr[2]).proprietary = <<Span(1, 0)>>

\* C20: a normalized type has a proprietary span only if the raw definition
\* or item it was computed from is extensible or has a well-known name
C20_ProprietaryOnlyIfExtensible ==
    \A pr \in Normalizations :
        TraitsOf(pr[2]).proprietary # <<>> =>
            (pr[1].extensible \/ pr[1].name \in KnownNames)

C20_Witness ==
    /\ Len(normalized) = 1
    /\ \E pr \in Normalizations :
          /\ pr[1] # definitions[1] /\ pr[1].extensible
          /\ TraitsOf(pr[2]).proprietary # <<>>
    /\ \E pr \in Normalizations :
          /\ pr[1] # definitions[1] /\ ~pr[1].extensible /\ RawItems(pr[1]) # <<>>
          /\ TraitsOf(pr[2]).proprietary = <<>>

C20_WitnessKnownName ==
    /\ Len(normalized) = 1
    /\ definitions[1].name \in KnownNames /\ ~definitions[1].extensible
    /\ TraitsOf(TypeDef(normalized[1])).proprietary # <<>>

C22_NormalizeNeverRaises ==
    /\ Returned => \A i \in 1..Len(definitions) : NormalizeThrows(definitions[i]) = <<>>
    /\ \A i \in 1..Len(normalized) :
          /\ "thrown" \notin DOMAIN normalized[i]
          /\ normalized[i].name # ""
          /\ definitions[i].name \notin DOMAIN predefinedTypes
               => (normalized[i].type.ref # "") # (normalized[i].type.obj # <<>>)

C22_Witness ==
    /\ Len(definitions) > 0 /\ Len(normalized) = Len(definitions)
    /\ \E i \in 1..Len(definitions) :
          /\ definitions[i].type = "SEQUENCE"
          /\ \E k \in 1..Len(RawItems(definitions[i])) :
                LET item == RawItems(definitions[i])[k]
                IN  /\ item.type \in SimpleTypes \cup ComplexTypes
                    /\ Len(RawItems(item)) > 0
                    /\ Len(TraitsOf(normalized[i].type).list) = Len(RawItems(definitions[i]))
                    /\ Len(TraitsOf(TraitsOf(normalized[i].type).list[k].type).list)
                         = Len(RawItems(item))

C24_SameResultTwice ==
    (firstCall # <<>> /\ pc \in {"done", "error"})
      => /\ pc = firstCall[1].pc
         /\ pc = "done" => definitions = firstCall[1].definitions
         /\ pc = "error" => error = firstCall[1].error

C24_Witness ==
    /\ firstCall # <<>> /\ pc = "done"
    /\ Len(definitions) = 2
    /\ \E n \in Nodes : n.comment # "" /\ Len(RawItems(n)) > 0

C24_WitnessFailure ==
    /\ firstCall # <<>> /\ pc = "error"
    /\ error.line > 1 /\ Len(definitions) > 0

\* the constraint ( LOW ) or ( LOW .. HIGH ) at the start of s, LOW being one
\* of the words lows or a number and HIGH one of the words highs or a number,
\* with the values the bounds stand for
ConstraintForm(s, lows, highs) ==
    LET End(i, words) == IF \E w \in words : At(s, i, w) THEN i + 3 ELSE NumberEnd(s, i)
        Value(t) == IF t = "MIN" THEN NegInf ELSE IF t = "MAX" THEN PosInf
                    ELSE ParseFloat(t)
        w1 == WsEnd(s, 2)
        b1 == End(w1, lows)
        w2 == WsEnd(s, b1)
        w3 == WsEnd(s, w2 + 2)
        b2 == End(w3, highs)
        w4 == WsEnd(s, b2)
        none == [ok |-> FALSE, lo |-> Num(0), hi |-> Num(0)]
    IN  IF Ch(s, 1) # "(" \/ b1 = w1 THEN none
        ELSE IF Ch(s, w2) = ")"
        THEN [ok |-> TRUE, lo |-> Value(SubSeq(s, w1, b1 - 1)),
              hi |-> Value(SubSeq(s, w1, b1 - 1))]
        ELSE IF At(s, w2, "..") /\ b2 > w3 /\ Ch(s, w4) = ")"
        THEN [ok |-> TRUE, lo |-> Value(SubSeq(s, w1, b1 - 1)),
              hi |-> Value(SubSeq(s, w3, b2 - 1))]
        ELSE none

\* the step of parseType at a value range written as form: the range is
\* recorded with the values of its bounds, or refused when LOW > HIGH
RangeTaken(form) ==
    IF NumGT(form.lo, form.hi)
    THEN pc' = "error" /\ error'.kind = "range"
    ELSE /\ pc' = "items"
         /\ stack'[Len(stack')].range = <<[min |-> form.lo, max |-> form.hi]>>

C25_WitnessLone ==
    /\ pc = "items"
    /\ Top.range = <<[min |-> NegInf, max |-> NegInf]>>

C25_WitnessRefused ==
    /\ pc = "items" /\ Top.range = <<>>
    /\ ConstraintForm(text, {"MAX"}, {"MIN"}).ok

\* C26: in an item list the comment skipped just before the name of an item,
\* in particular one that follows the comma ending the item before, is the
\* comment of that next item: it is not given to the item before the comma
\* and it is not dropped
C26_CommentAfterCommaOnNextItem ==
    (Returned /\ input \in CommentTexts)
      => /\ RawItems(definitions[1])[1].comment = ""
         /\ RawItems(definitions[1])[2].comment = "one"

\* what parse does with the comments of an item list: the comment skipped
\* after an item's own text, before its comma, is the comment of that item,
\* and the one after the comma is the comment of no item
C26_CommentAfterCommaDropped ==
    /\ (Returned /\ input \in CommentTexts)
         => \A n \in Nodes : n.comment = ""
    /\ (Returned /\ input = CommentBeforeCommaText)
         => /\ RawItems(definitions[1])[1].comment = "zero"
            /\ RawItems(definitions[1])[2].comment = "last"

\* C27: whenever a raw definition or nested item carries a series marker
\* (true, or the count n of SEQUENCE SIZE(n) OF), its normalized type is a
\* structured object carrying that same series value, also when the type
\* has an item list or a constraint, and for every count n, 0 included
C27_SeriesCarried ==
    \A pr \in Normalizations :
        pr[1].series # <<>>
          => /\ TypeOf(pr[2]).obj # <<>>
             /\ TraitsOf(pr[2]).series = pr[1].series

\* what normalizeDefinition does with the marker: it is carried when the
\* type has no item list and the marker is not the count 0
C27_SeriesCarriedWithoutItems ==
    \A pr \in Normalizations :
        TraitsOf(pr[2]).series
          = (IF HasSeries(pr[1]) /\ Len(RawItems(pr[1])) = 0 THEN pr[1].series ELSE <<>>)

\* the text parseType reads the base type from: what follows the marker of
\* a repeated type, if there is one
BaseTypeText == TryMatch(Cur, SeriesPattern(text), content).text

\* C28: the base type is resolved by trying the Any marker, ENUMERATED, BIT
\* STRING and OCTET STRING, in this order, and only then an identifier with
\* a leading uppercase letter; the first match wins, so the reserved words
\* give the kinds Enumerated, BitString and OctetString and never the name of
\* an opaque reference, and the parse fails when nothing matches
C28_BaseTypeOrder ==
    [][pc = "type"
         => LET s    == BaseTypeText
                type == stack'[Len(stack')].type
            IN  /\ StartsWith(s, "ABSTRACT-SYNTAX.&Type") => (pc' = "size" /\ type = "Any")
                /\ StartsWith(s, "ENUMERATED") => (pc' = "size" /\ type = "Enumerated")
                /\ WordsPattern(s, "BIT").len > 0 => (pc' = "size" /\ type = "BitString")
                /\ WordsPattern(s, "OCTET").len > 0
                     => (pc' = "size" /\ type = "OctetString")
                /\ pc' = "size"
                     => /\ type # "ENUMERATED"
                        /\ type \in {"BIT", "OCTET"} => WordsPattern(s, type).len = 0
                /\ ( /\ ~StartsWith(s, "ABSTRACT-SYNTAX.&Type")
                     /\ ~StartsWith(s, "ENUMERATED")
                     /\ WordsPattern(s, "BIT").len = 0
                     /\ WordsPattern(s, "OCTET").len = 0 )
                     => IF Ch(s, 1) \in Upper
                        THEN pc' = "size" /\ type = TypeRefPattern(s).all
                        ELSE pc' = "error" /\ error'.kind = "syntax"]_vars

C28_Witness ==
    /\ pc = "size" /\ Top.type = "BitString" /\ Len(stack) = 1
    /\ input = "Foo ::= BIT\t\n STRING"

C28_WitnessIdentifier ==
    /\ pc = "size" /\ Top.type = "BIT-STRING"

C28_WitnessFailure ==
    /\ pc = "error" /\ error.kind = "syntax" /\ error.pattern = "type"
    /\ input = "Foo ::= SEQUENCE { a [1] ABSTRACT-SYNTAX.&Type, b [2] 9 }"

\* C29: every items list a successful parse returns is non-empty and follows
\* Item ("," Item)* ["," "..."]: where the list opens and after each comma an
\* item name must follow (an empty body, a body that begins with the marker
\* and a comma before the closing brace are syntax errors; so is the marker
\* after a comma in a SEQUENCE, where it is not tried), and after the last
\* item or the marker the closing brace must follow
C29_ItemListGrammar ==
    [][/\ pc' = "done"
            => \A i \in 1..Len(definitions') :
                 \A n \in Tree(definitions'[i]) : n.items # <<>> => Len(n.items[1]) > 0
       /\ pc = "loop"
            => LET s == Skip(Cur, content).text
               IN  /\ s = "" => pc' = "close"
                   /\ (s # "" /\ Ch(s, 1) \notin Lower)
                        => (pc' = "error" /\ error'.kind = "syntax")
                   /\ (s # "" /\ Ch(s, 1) \in Lower) => pc' \in {"itemEnd", "type", "error"}
       /\ pc = "itemEnd"
            => \/ pc' = "loop" /\ StartsWith(text, ",")
               \/ pc' = "close" /\ ~StartsWith(text, ",")
               \/ /\ pc' = "close" /\ StartsWith(text, ",")
                  /\ StartsWith(Skip([Cur EXCEPT !.text = Tail(text)], content).text, "...")
                  /\ stack[Len(stack) - 1].type # "SEQUENCE"
                  /\ stack'[Len(stack')].extensible
       /\ pc = "close"
            => IF StartsWith(text, "}") THEN pc' = "ret"
               ELSE pc' = "error" /\ error'.kind = "syntax"]_vars

C29_Witness ==
    /\ pc = "error" /\ error.kind = "syntax"
    /\ input = "Foo ::= ENUMERATED {}"

C29_WitnessMarkerFirst ==
    /\ pc = "error" /\ error.kind = "syntax"
    /\ input = "Foo ::= ENUMERATED { ... }"

C29_WitnessTrailingComma ==
    /\ pc = "error" /\ error.kind = "syntax"
    /\ input \in {"Foo ::= CHOICE { a Real, }", "Foo ::= SEQUENCE { a Real, ... }"}
    /\ Len(RawItems(Top)) = 1

C29_WitnessList ==
    /\ pc = "done" /\ input = "Foo ::= BIT STRING { a(0), b(1), ... }"
    /\ Len(RawItems(definitions[1])) = 2 /\ definitions[1].extensible

\* a step that leaves the remaining text, the offset used for the error
\* positions and the last comment as they are
CursorKept ==
    /\ text' = text
    /\ currentIndex' = currentIndex
    /\ lastComment' = lastComment

\* C30: a failed tryMatch consumes nothing: when the optional pattern of a
\* step (the SIZE word, the value range, the opening brace, OPTIONAL, the
\* comma) is absent, the text, the offset and the last comment are after the
\* step what they were before it, so that a comment skipped after a type
\* is still the last comment when the item is completed
C30_FailedMatchConsumesNothing ==
    [][/\ (pc = "size" /\ SizePattern(text).len = 0) => (pc' = "range" /\ CursorKept)
       /\ (pc = "range" /\ RangePattern(text).len = 0) => (pc' = "items" /\ CursorKept)
       /\ (pc = "items" /\ ~StartsWith(text, "{")) => (pc' = "ret" /\ CursorKept)
       /\ (pc = "ret" /\ ~StartsWith(text, "OPTIONAL")) => CursorKept
       /\ (pc = "itemEnd" /\ ~StartsWith(text, ",")) => (pc' = "close" /\ CursorKept)]_vars

C30_Witness ==
    /\ pc = "close" /\ lastComment # ""
    /\ Len(RawItems(Top)) > 0
    /\ LET item == RawItems(Top)[Len(RawItems(Top))]
       IN  /\ item.comment = lastComment
           /\ item.type \notin SimpleTypes \cup ComplexTypes
           /\ item.number = <<>> /\ item.size = <<>> /\ item.range = <<>>
           /\ ~item.optional

====
